---------------------------- MODULE Spec2Model ----------------------------
(***************************************************************************)
(* Tale Forge AI-provider orchestration layer:                             *)
(*   - the telemetry recorder   (supabase/functions/_shared/telemetry.ts)  *)
(*   - the resilient AI client  (supabase/functions/_shared/ai-client.ts)  *)
(*   - the provider registry    (ai-config part of health-check.ts)        *)
(*   - the health checker       (health-check.ts)                          *)
(*                                                                         *)
(* Strings that the code inspects (error messages) are sequences of text   *)
(* fragments; "message.includes(x)" is containment of x in the lower-cased *)
(* fragments.  Optional values (tokenUsage, errorMessage) are sequences of *)
(* length 0 (undefined) or more.  Times are integer milliseconds.          *)
(***************************************************************************)
EXTENDS Integers, Sequences, FiniteSets, TLC

VARIABLES
    telemetryBuffer,  \* telemetry.ts:29   module-level event array
    now,              \* Date.now()
    inserted,         \* every event handed to log since the buffer was last empty by clear
    lastOp,           \* the last telemetry operation called, its argument and the
                      \* buffer size it found
    stats,            \* the value returned by the last getTelemetryStats call
    constructed,      \* an AIClient has been constructed
    functionName,     \* AIClient.telemetry.functionName
    retryConfig,      \* AIClient.retryConfig
    pc,               \* where the logical call is: idle, fetching, sleeping, done
    phase,            \* which makeRequest invocation runs: direct, primary, fallback
    provider,         \* makeRequest: provider argument
    request,          \* makeRequest: request argument
    authHeader,       \* makeRequest: authHeader argument
    timerStart,       \* makeRequest: timer.startTime
    attempt,          \* makeRequest: loop variable
    lastError,        \* makeRequest: lastError (<<>> is null)
    pendingDelay,     \* makeRequest: the delay of the sleep being awaited
    primaryProvider,  \* makeRequestWithFallback arguments
    fallbackProvider,
    origRequest,
    getPrimaryAuthHeader,
    getFallbackAuthHeader,
    primaryError,     \* makeRequestWithFallback: the caught primaryError
    result,           \* what the logical call returned or threw
    trace,            \* what the call did, in order: fetches issued, errors caught by
                      \* makeRequest, sleeps started, events handed to log
    classified,       \* the last error handed to isRetryableError, and its verdict
    env,              \* Deno.env: the process environment the registry reads
    lookup,           \* the last registry function called, its argument and outcome
    healthPc,         \* performStartupHealthCheck: idle, text, image, done
    probeState,       \* per provider, checkProvider: notStarted, fetching, done
    probeStart,       \* per provider, checkProvider: startTime
    probeStatus,      \* per provider: the HTTP status its fetch got, 0 for none
    probeResult,      \* per provider: the HealthCheckResult checkProvider returned
    healthFetches,    \* the fetches the health checker issued, in order
    healthLog,        \* the logProviderHealth calls, in order
    systemHealth,     \* what performStartupHealthCheck returned
    tasks             \* per concurrent request: where its makeRequest call stands

vars == <<telemetryBuffer, inserted, now, lastOp, stats, constructed, functionName,
          retryConfig, pc, phase, provider, request, authHeader, timerStart,
          attempt, lastError, pendingDelay, primaryProvider, fallbackProvider,
          origRequest, getPrimaryAuthHeader, getFallbackAuthHeader, primaryError,
          result, trace, classified, env, lookup, healthPc, probeState,
          probeStart, probeStatus, probeResult, healthFetches, healthLog,
          systemHealth, tasks>>

clientVars == <<constructed, functionName, retryConfig, pc, phase, provider,
                request, authHeader, timerStart, attempt, lastError,
                pendingDelay, primaryProvider, fallbackProvider, origRequest,
                getPrimaryAuthHeader, getFallbackAuthHeader, primaryError,
                result, trace>>

telemetryVars == <<telemetryBuffer, inserted, now, lastOp, stats>>

registryVars == <<env, lookup>>

healthVars == <<healthPc, probeState, probeStart, probeStatus, probeResult,
                healthFetches, healthLog, systemHealth>>

\* What neither the client nor the telemetry module touches
restVars == <<classified, registryVars, healthVars, tasks>>

-----------------------------------------------------------------------------
(* Bounds of the model *)

\* maxRetries of the RetryConfig handed to the constructor ranges over 0..MaxRetriesBound
MaxRetriesBound == 2

\* telemetry.ts:30 sets 1000; the model keeps the buffer small enough to fill
MAX_BUFFER_SIZE == 3

\* the clock of the telemetry specification stops here
MaxTime == 2

\* log calls of the telemetry specification between two clears
MaxLogs == 4

\* text fragments of an error message handed to isRetryableError
MaxFragments == 2

\* milliseconds one fetch takes in the client specification
HttpLatencyMs == 1

\* milliseconds between two readings of the clock in the health specification
HealthTickMs == 2500

\* clock readings of the health specification after the first
MaxHealthTicks == 4

-----------------------------------------------------------------------------
(* Generic helpers *)

Min(a, b) == IF a < b THEN a ELSE b

RECURSIVE Pow(_, _)
Pow(b, e) == IF e <= 0 THEN 1 ELSE b * Pow(b, e - 1)

Undefined == <<>>


-----------------------------------------------------------------------------
(* Strings *)

\* String.prototype.toLowerCase on the text fragments the model uses
ToLowerCase(fragment) ==
    CASE fragment = "Service Unavailable"   -> "service unavailable"
      [] fragment = "Unauthorized"          -> "unauthorized"
      [] fragment = "Internal Server Error" -> "internal server error"
      [] fragment = "Connection"            -> "connection"
      [] fragment = "HTTP "                 -> "http "
      [] fragment = "Unknown provider: "    -> "unknown provider: "
      [] fragment = "Unexpected token"      -> "unexpected token"
      [] fragment = "Unknown error"         -> "unknown error"
      [] fragment = "Unexpected error in retry logic"
                                            -> "unexpected error in retry logic"
      [] fragment = "Custom"                -> "custom"
      [] fragment = "Rate Limit"            -> "rate limit"
      [] fragment = "Timeout"               -> "timeout"
      [] fragment = "NETWORK"               -> "network"
      [] fragment = "Bad Request"           -> "bad request"
      [] fragment = "Not Found"             -> "not found"
      [] OTHER                              -> fragment

\* message.toLowerCase().includes(signal)
Includes(message, signal) ==
    \E i \in 1..Len(message) : ToLowerCase(message[i]) = signal

-----------------------------------------------------------------------------
(* telemetry.ts *)

\* new Date().toISOString(), and new Date(timestamp).getTime() which reads it back
ToISOString(ms) == <<"ISO-8601", ms>>
GetTime(timestamp) == timestamp[2]

\* AITelemetry.log: the event gets its timestamp and the client's functionName,
NewEvent(fnName, event, time) ==
    [timestamp      |-> ToISOString(time),
     functionName   |-> fnName,
     provider       |-> event.provider,
     status         |-> event.status,
     responseTimeMs |-> event.responseTimeMs,
     tokenUsage     |-> event.tokenUsage,
     errorMessage   |-> event.errorMessage]

\* Log of an append that is not serialized: the event is written into the
\* slot another append has just filled
LogLostUpdate(buffer, fnName, event, time) ==
    IF buffer = <<>> THEN <<NewEvent(fnName, event, time)>>
    ELSE [buffer EXCEPT ![Len(buffer)] = NewEvent(fnName, event, time)]

\* Log without the rotation of lines 51-53
LogNoShift(buffer, fnName, event, time) ==
    Append(buffer, NewEvent(fnName, event, time))

\* is pushed, and the oldest event is shifted out when the buffer has grown
\* past MAX_BUFFER_SIZE
Log(buffer, fnName, event, time) ==
    LET pushed == Append(buffer, NewEvent(fnName, event, time))
    IN  IF Len(pushed) > MAX_BUFFER_SIZE THEN Tail(pushed) ELSE pushed

\* TimerFailure that drops the error text
TimerFailureNoMessage(timerProvider, startTime, time, error) ==
    [provider |-> timerProvider, status |-> "failure",
     responseTimeMs |-> time - startTime,
     tokenUsage |-> Undefined, errorMessage |-> Undefined]

\* TimerSuccess that leaves the token usage out of its event
TimerSuccessNoUsage(timerProvider, startTime, time, tokenUsage) ==
    [provider |-> timerProvider, status |-> "success",
     responseTimeMs |-> time - startTime,
     tokenUsage |-> Undefined, errorMessage |-> Undefined]

\* TimerRetry that numbers the retry after the attempt that failed
TimerRetryFailedAttempt(timerProvider, startTime, time, attemptNumber) ==
    [provider |-> timerProvider, status |-> "retry",
     responseTimeMs |-> time - startTime,
     tokenUsage |-> Undefined,
     errorMessage |-> <<"Retry attempt ", ToString(attemptNumber - 1)>>]

\* TimerFallback that leaves the primary's error out of its event
TimerFallbackNoMessage(timerProvider, startTime, time, error) ==
    [provider |-> timerProvider, status |-> "fallback",
     responseTimeMs |-> time - startTime,
     tokenUsage |-> Undefined, errorMessage |-> Undefined]

\* PerformanceTimer.success / failure / fallback / retry: the event each one logs
TimerSuccess(timerProvider, startTime, time, tokenUsage) ==
    [provider |-> timerProvider, status |-> "success",
     responseTimeMs |-> time - startTime,
     tokenUsage |-> tokenUsage, errorMessage |-> Undefined]

TimerFailure(timerProvider, startTime, time, error) ==
    [provider |-> timerProvider, status |-> "failure",
     responseTimeMs |-> time - startTime,
     tokenUsage |-> Undefined, errorMessage |-> error]

TimerFallback(timerProvider, startTime, time, error) ==
    [provider |-> timerProvider, status |-> "fallback",
     responseTimeMs |-> time - startTime,
     tokenUsage |-> Undefined, errorMessage |-> error]

TimerRetry(timerProvider, startTime, time, attemptNumber) ==
    [provider |-> timerProvider, status |-> "retry",
     responseTimeMs |-> time - startTime,
     tokenUsage |-> Undefined,
     errorMessage |-> <<"Retry attempt ", ToString(attemptNumber)>>]

\* The timeWindow argument of getTelemetryStats: undefined (no argument),
\* a number of milliseconds, or Infinity
NoWindow == [kind |-> "undefined", value |-> 0]
InfiniteWindow == [kind |-> "Infinity", value |-> 0]
WindowOf(ms) == [kind |-> "number", value |-> ms]

\* JavaScript truthiness of the argument: undefined and 0 are falsy
Truthy(timeWindow) ==
    /\ timeWindow.kind # "undefined"
    /\ ~(timeWindow.kind = "number" /\ timeWindow.value = 0)

\* CutoffTime whose default is the current time
CutoffTimeDefaultNow(timeWindow, time) ==
    IF Truthy(timeWindow)
    THEN IF timeWindow.kind = "Infinity"
         THEN [kind |-> "-Infinity", value |-> 0]
         ELSE [kind |-> "number", value |-> time - timeWindow.value]
    ELSE [kind |-> "number", value |-> time]

\* const cutoffTime = timeWindow ? Date.now() - timeWindow : 0
\* (Date.now() - Infinity is -Infinity)
CutoffTime(timeWindow, time) ==
    IF Truthy(timeWindow)
    THEN IF timeWindow.kind = "Infinity"
         THEN [kind |-> "-Infinity", value |-> 0]
         ELSE [kind |-> "number", value |-> time - timeWindow.value]
    ELSE [kind |-> "number", value |-> 0]

\* AfterCutoff that lets the event at the cutoff pass
AfterCutoffInclusive(event, cutoff) ==
    IF cutoff.kind = "-Infinity" THEN TRUE
    ELSE GetTime(event.timestamp) >= cutoff.value

\* new Date(event.timestamp).getTime() > cutoffTime
AfterCutoff(event, cutoff) ==
    IF cutoff.kind = "-Infinity" THEN TRUE
    ELSE GetTime(event.timestamp) > cutoff.value

\* telemetryBuffer.filter(...)
RelevantEvents(buffer, cutoff) ==
    SelectSeq(buffer, LAMBDA event : AfterCutoff(event, cutoff))

\* The keys of providerGroups in insertion order (order of first occurrence)
RECURSIVE GroupKeys(_)
GroupKeys(events) ==
    IF events = <<>> THEN <<>>
    ELSE LET front == GroupKeys(SubSeq(events, 1, Len(events) - 1))
             key   == events[Len(events)].provider
         IN  IF \E i \in 1..Len(front) : front[i] = key THEN front
             ELSE Append(front, key)

CountStatus(events, status) ==
    Len(SelectSeq(events, LAMBDA e : e.status = status))

RECURSIVE SumResponseTime(_)
SumResponseTime(events) ==
    IF events = <<>> THEN 0
    ELSE events[1].responseTimeMs + SumResponseTime(Tail(events))

RECURSIVE SumTokens(_)
SumTokens(events) ==
    IF events = <<>> THEN 0
    ELSE (IF events[1].tokenUsage = Undefined THEN 0 ELSE events[1].tokenUsage[1])
         + SumTokens(Tail(events))

\* Math.round of the non-negative quotient num / den
RoundDiv(num, den) == (2 * num + den) \div (2 * den)

\* One ProviderStats; successRate is kept in hundredths of a percent
\* (Math.round(successRate * 100) before the final division by 100)
ProviderStatsOf(name, events) ==
    LET totalRequests      == Len(events)
        successfulRequests == CountStatus(events, "success")
    IN  [provider           |-> name,
         totalRequests      |-> totalRequests,
         successfulRequests |-> successfulRequests,
         failedRequests     |-> CountStatus(events, "failure"),
         fallbackRequests   |-> CountStatus(events, "fallback"),
         retryRequests      |-> CountStatus(events, "retry"),
         avgResponseTime    |-> RoundDiv(SumResponseTime(events), totalRequests),
         totalTokens        |-> SumTokens(events),
         successRate        |-> IF totalRequests > 0
                                THEN RoundDiv(successfulRequests * 10000, totalRequests)
                                ELSE 0]

\* GetTelemetryStats whose aggregation reads the buffer again after an append
\* took effect behind its filtering step
GetTelemetryStatsTorn(buffer, timeWindow, time) ==
    LET relevantEvents == RelevantEvents(buffer, CutoffTime(timeWindow, time))
        later          == IF relevantEvents = <<>> THEN <<>>
                          ELSE Append(relevantEvents, relevantEvents[1])
        keys           == GroupKeys(relevantEvents)
    IN  [i \in 1..Len(keys) |->
            ProviderStatsOf(keys[i],
                SelectSeq(later, LAMBDA e : e.provider = keys[i]))]

\* getTelemetryStats, lines 154-194: filter, reduce and map in one
\* synchronous run
GetTelemetryStats(buffer, timeWindow, time) ==
    LET relevantEvents == RelevantEvents(buffer, CutoffTime(timeWindow, time))
        keys           == GroupKeys(relevantEvents)
    IN  [i \in 1..Len(keys) |->
            ProviderStatsOf(keys[i],
                SelectSeq(relevantEvents, LAMBDA e : e.provider = keys[i]))]

\* ClearTelemetryBuffer that drops the oldest event only
ClearTelemetryBufferOldest(buffer) ==
    IF buffer = <<>> THEN <<>> ELSE SubSeq(buffer, 2, Len(buffer))

\* clearTelemetryBuffer: telemetryBuffer.length = 0
ClearTelemetryBuffer(buffer) == <<>>

-----------------------------------------------------------------------------
(* ai-config.ts (second part of health-check.ts) *)

OpenAI == [name |-> "OpenAI", model |-> "gpt-4o", maxTokens |-> 400]
OVH    == [name |-> "OVH", model |-> "Meta-Llama-3_3-70B-Instruct", maxTokens |-> 400]

OVH_SDXL == [name |-> "OVH_SDXL", model |-> "stable-diffusion-xl", maxTokens |-> 0]

AI_CONFIG ==
    [text  |-> [primary |-> OpenAI, fallback |-> OVH],
     image |-> [primary |-> OVH_SDXL]]

\* An AIProvider that is not one of AI_CONFIG: its name is known to neither
\* getAuthHeader nor adaptRequestForProvider
Custom == [name |-> "Custom", model |-> "custom-model", maxTokens |-> 450]

\* A second AIProvider that is not one of AI_CONFIG
Unlisted == [name |-> "Unlisted", model |-> "unlisted-model", maxTokens |-> 300]

NoProvider == [name |-> "", model |-> "", maxTokens |-> 0]

\* The environment variables the registry reads
EnvNames == { "OPENAI_API_KEY", "OVH_AI_ENDPOINTS_ACCESS_TOKEN" }

\* What Deno.env.get gives: <<>> is undefined (the variable is not set), <<t>>
\* is the string whose text is the fragments t; <<<<>>>> is the empty string
EnvValues ==
    { <<>>,
      << <<>> >>,
      << <<"sk-", "live-key">> >>,
      << <<"placeholder">> >>,
      << <<"your-", "placeholder", "-key">> >> }

\* key && ...: undefined and the empty string are falsy
IsTruthyString(v) == v # <<>> /\ v[1] # <<>>

\* key.includes('placeholder'), on a string
IncludesPlaceholder(v) == \E i \in 1..Len(v[1]) : v[1][i] = "placeholder"

\* !!(key && !key.includes('placeholder'))
IsUsableKey(v) == IsTruthyString(v) /\ ~IncludesPlaceholder(v)

\* `${value}` inside a template literal
TemplateText(v) == IF v = <<>> THEN <<"undefined">> ELSE v[1]

\* CheckProviderAvailability that does not look for the placeholder
CheckProviderAvailabilityAnyKey(e, p) ==
    CASE p.name = "OpenAI" -> IsTruthyString(e["OPENAI_API_KEY"])
      [] p.name \in {"OVH", "OVH_SDXL"} ->
            IsTruthyString(e["OVH_AI_ENDPOINTS_ACCESS_TOKEN"])
      [] OTHER -> FALSE

\* checkProviderAvailability
CheckProviderAvailability(e, p) ==
    CASE p.name = "OpenAI" -> IsUsableKey(e["OPENAI_API_KEY"])
      [] p.name = "OVH" -> IsUsableKey(e["OVH_AI_ENDPOINTS_ACCESS_TOKEN"])
      [] p.name = "OVH_SDXL" -> IsUsableKey(e["OVH_AI_ENDPOINTS_ACCESS_TOKEN"])
      [] OTHER -> FALSE

\* GetAuthHeader that reads the OpenAI key for every known provider
GetAuthHeaderOneKey(e, p) ==
    IF p.name \in {"OpenAI", "OVH", "OVH_SDXL"}
    THEN [throws |-> FALSE,
          value |-> <<"Bearer ">> \o TemplateText(e["OPENAI_API_KEY"]),
          message |-> <<>>]
    ELSE [throws |-> TRUE, value |-> <<>>, message |-> <<"Unknown provider: ", p.name>>]

\* getAuthHeader: a bearer header from the provider's environment variable, or
\* an error for a provider name it does not know
GetAuthHeader(e, p) ==
    CASE p.name = "OpenAI" ->
            [throws |-> FALSE,
             value |-> <<"Bearer ">> \o TemplateText(e["OPENAI_API_KEY"]),
             message |-> <<>>]
      [] p.name \in {"OVH", "OVH_SDXL"} ->
            [throws |-> FALSE,
             value |-> <<"Bearer ">> \o TemplateText(e["OVH_AI_ENDPOINTS_ACCESS_TOKEN"]),
             message |-> <<>>]
      [] OTHER ->
            [throws |-> TRUE, value |-> <<>>, message |-> <<"Unknown provider: ", p.name>>]

\* GetAvailableTextProvider that prefers the fallback
GetAvailableTextProviderFallbackFirst(e) ==
    IF CheckProviderAvailability(e, AI_CONFIG.text.fallback)
    THEN [throws |-> FALSE, provider |-> AI_CONFIG.text.fallback, message |-> <<>>]
    ELSE IF CheckProviderAvailability(e, AI_CONFIG.text.primary)
    THEN [throws |-> FALSE, provider |-> AI_CONFIG.text.primary, message |-> <<>>]
    ELSE [throws |-> TRUE, provider |-> NoProvider,
          message |-> <<"No text providers available - check API keys">>]

\* getAvailableTextProvider
GetAvailableTextProvider(e) ==
    IF CheckProviderAvailability(e, AI_CONFIG.text.primary)
    THEN [throws |-> FALSE, provider |-> AI_CONFIG.text.primary, message |-> <<>>]
    ELSE IF CheckProviderAvailability(e, AI_CONFIG.text.fallback)
    THEN [throws |-> FALSE, provider |-> AI_CONFIG.text.fallback, message |-> <<>>]
    ELSE [throws |-> TRUE, provider |-> NoProvider,
          message |-> <<"No text providers available - check API keys">>]

\* GetImageProvider without the availability test of lines 400-404
GetImageProviderUnchecked(e) ==
    [throws |-> FALSE, provider |-> AI_CONFIG.image.primary, message |-> <<>>]

\* getImageProvider
GetImageProvider(e) ==
    IF ~CheckProviderAvailability(e, AI_CONFIG.image.primary)
    THEN [throws |-> TRUE, provider |-> NoProvider,
          message |-> <<"Image provider ", AI_CONFIG.image.primary.name,
                        " not available - check API keys">>]
    ELSE [throws |-> FALSE, provider |-> AI_CONFIG.image.primary, message |-> <<>>]

\* No registry function has been called since the environment changed
NoLookup ==
    [op |-> "none", arg |-> "", throws |-> FALSE, available |-> FALSE,
     provider |-> NoProvider, header |-> <<>>, message |-> <<>>]

-----------------------------------------------------------------------------
(* ai-client.ts *)

DEFAULT_RETRY_CONFIG ==
    [maxRetries |-> 2, baseDelayMs |-> 1000, maxDelayMs |-> 8000,
     backoffMultiplier |-> 2]

\* The retry configurations a client is constructed with: the default delays,
\* and delays whose ceiling is met at the second and at the first retry
RetryConfigs ==
    { [maxRetries |-> m, baseDelayMs |-> d[1], maxDelayMs |-> d[2],
       backoffMultiplier |-> d[3]] :
        m \in 0..MaxRetriesBound,
        d \in { <<1000, 8000, 2>>, <<1000, 1500, 2>>, <<3000, 2000, 3>> } }

FunctionNames == { "generate-story-segment" }

\* AIRequest; messages and temperature are carried but never inspected
Requests ==
    { [model |-> "gpt-4o", messages |-> "story prompt", max_tokens |-> t,
       temperature |-> "0.7"] : t \in {420} }

NoRequest == [model |-> "", messages |-> "", max_tokens |-> 0, temperature |-> ""]

\* The auth-header callbacks a caller passes for a provider:
\* () => getAuthHeader(provider), and for a provider outside AI_CONFIG also
\* one of the caller's own that returns a header
AuthThunkKinds(p) ==
    IF p.name \in {"OpenAI", "OVH"}
    THEN { "getAuthHeader" }
    ELSE { "getAuthHeader", "own" }

\* What the callback gives when makeRequestWithFallback calls it
AuthThunk(thunkKind, e, p) ==
    IF thunkKind = "getAuthHeader"
    THEN GetAuthHeader(e, p)
    ELSE [throws |-> FALSE, value |-> <<"Bearer ", "custom-key">>, message |-> <<>>]

\* How one fetch(...) of makeHttpRequest can end, with what response.text() and
\* response.json() then give
FetchOutcomes ==
    { [kind |-> "response", ok |-> TRUE, status |-> 200, text |-> "",
       json |-> "valid", usage |-> <<42>>, message |-> <<>>],
      [kind |-> "response", ok |-> TRUE, status |-> 200, text |-> "",
       json |-> "valid", usage |-> <<>>, message |-> <<>>],
      [kind |-> "response", ok |-> TRUE, status |-> 200, text |-> "",
       json |-> "invalid", usage |-> <<>>, message |-> <<>>],
      [kind |-> "response", ok |-> FALSE, status |-> 503,
       text |-> "Service Unavailable", json |-> "", usage |-> <<>>,
       message |-> <<>>],
      [kind |-> "response", ok |-> FALSE, status |-> 401,
       text |-> "Unauthorized", json |-> "", usage |-> <<>>, message |-> <<>>],
      [kind |-> "response", ok |-> FALSE, status |-> 403,
       text |-> "Rate Limit", json |-> "", usage |-> <<>>, message |-> <<>>],
      [kind |-> "response", ok |-> FALSE, status |-> 500,
       text |-> "Internal Server Error", json |-> "", usage |-> <<>>,
       message |-> <<>>],
      [kind |-> "throw", ok |-> FALSE, status |-> 0, text |-> "", json |-> "",
       usage |-> <<>>, message |-> <<"Connection", " reset by peer">>] }

\* IsRetryableError that takes an authentication error for a retryable one
IsRetryableErrorAuthRetried(message) ==
    \/ \E signal \in {"429", "rate limit", "502", "503", "504", "timeout",
                       "network", "connection"} : Includes(message, signal)
    \/ Includes(message, "401")

\* IsRetryableError without the test of line 169
IsRetryableErrorNoConnection(message) ==
    \E signal \in {"429", "rate limit", "502", "503", "504", "timeout", "network"} :
        Includes(message, signal)

\* isRetryableError
IsRetryableError(message) ==
    IF Includes(message, "429") \/ Includes(message, "rate limit") THEN TRUE
    ELSE IF Includes(message, "502") \/ Includes(message, "503")
            \/ Includes(message, "504") THEN TRUE
    ELSE IF Includes(message, "timeout") \/ Includes(message, "network") THEN TRUE
    ELSE IF Includes(message, "connection") THEN TRUE
    ELSE IF Includes(message, "401") \/ Includes(message, "403")
            \/ Includes(message, "unauthorized") THEN FALSE
    ELSE IF Includes(message, "400") \/ Includes(message, "bad request") THEN FALSE
    ELSE IF Includes(message, "404") \/ Includes(message, "not found") THEN FALSE
    ELSE FALSE

\* The signals isRetryableError looks for: lines 166-169, and lines 172-174
RetryableSignals ==
    {"429", "rate limit", "502", "503", "504", "timeout", "network", "connection"}

FatalSignals ==
    {"401", "403", "unauthorized", "400", "bad request", "404", "not found"}

\* The text fragments of the errors handed to isRetryableError: every signal
\* as the code spells it, signals in other letter case, and text that holds
\* no signal
ErrorFragments ==
    RetryableSignals \cup FatalSignals
    \cup {"Rate Limit", "Timeout", "NETWORK", "Connection", "Unauthorized",
          "Bad Request", "Not Found"}
    \cup {"HTTP ", "500", "Internal Server Error", " reset by peer"}

ErrorMessages ==
    UNION { [1..n -> ErrorFragments] : n \in 1..MaxFragments }

NoClassification == [message |-> <<>>, retryable |-> FALSE]

\* BackoffDelay with the exponent attempt instead of attempt - 1
BackoffDelayOffByOne(cfg, attemptNumber) ==
    Min(cfg.baseDelayMs * Pow(cfg.backoffMultiplier, attemptNumber),
        cfg.maxDelayMs)

\* Math.min(baseDelayMs * Math.pow(backoffMultiplier, attempt - 1), maxDelayMs)
BackoffDelay(cfg, attemptNumber) ==
    Min(cfg.baseDelayMs * Pow(cfg.backoffMultiplier, attemptNumber - 1),
        cfg.maxDelayMs)

\* for (...; attempt <= this.retryConfig.maxRetries; ...)
LoopContinues(cfg, attemptNumber) == attemptNumber <= cfg.maxRetries

\* GivesUp without the classification of the error
GivesUpOnlyWhenExhausted(cfg, attemptNumber, message) ==
    attemptNumber = cfg.maxRetries

\* the catch block's test: rethrow instead of going round the loop again
GivesUp(cfg, attemptNumber, message) ==
    ~IsRetryableError(message) \/ attemptNumber = cfg.maxRetries

\* NextAttempt when the loop forgets to count
NextAttemptStuck(attemptNumber) == attemptNumber

\* attempt++
NextAttempt(attemptNumber) == attemptNumber + 1

\* adaptRequestForProvider
AdaptRequestForProvider(req, p) ==
    CASE p.name = "OVH" ->
            [req EXCEPT !.model = p.model,
                        !.max_tokens = Min(req.max_tokens, p.maxTokens)]
      [] p.name = "OpenAI" ->
            [req EXCEPT !.model = p.model,
                        !.max_tokens = Min(req.max_tokens, p.maxTokens)]
      [] OTHER ->
            [req EXCEPT !.model = p.model, !.max_tokens = p.maxTokens]

\* BothFailedMessage that reports the fallback's error only
BothFailedMessageFallbackOnly(primary, primaryMessage, fallback, fallbackMessage) ==
    <<"Both AI providers failed. ", "Fallback (", fallback.name, "): ">>
    \o fallbackMessage

\* The message of the error thrown when both providers have failed
BothFailedMessage(primary, primaryMessage, fallback, fallbackMessage) ==
    <<"Both AI providers failed. Primary (", primary.name, "): ">>
    \o primaryMessage
    \o <<". ", "Fallback (", fallback.name, "): ">>
    \o fallbackMessage

-----------------------------------------------------------------------------
(* The running call, as a record that the steps of the code transform *)

State ==
    [telemetryBuffer |-> telemetryBuffer, inserted |-> inserted, now |-> now,
     functionName |-> functionName, retryConfig |-> retryConfig,
     pc |-> pc, phase |-> phase, provider |-> provider, request |-> request,
     authHeader |-> authHeader, timerStart |-> timerStart,
     attempt |-> attempt, lastError |-> lastError,
     pendingDelay |-> pendingDelay, primaryProvider |-> primaryProvider,
     fallbackProvider |-> fallbackProvider, origRequest |-> origRequest,
     getPrimaryAuthHeader |-> getPrimaryAuthHeader,
     getFallbackAuthHeader |-> getFallbackAuthHeader,
     primaryError |-> primaryError, result |-> result, trace |-> trace,
     thrown |-> <<>>, returned |-> <<>>]

Install(s) ==
    /\ telemetryBuffer' = s.telemetryBuffer
    /\ inserted' = s.inserted
    /\ now' = s.now
    /\ functionName' = s.functionName
    /\ retryConfig' = s.retryConfig
    /\ pc' = s.pc
    /\ phase' = s.phase
    /\ provider' = s.provider
    /\ request' = s.request
    /\ authHeader' = s.authHeader
    /\ timerStart' = s.timerStart
    /\ attempt' = s.attempt
    /\ lastError' = s.lastError
    /\ pendingDelay' = s.pendingDelay
    /\ primaryProvider' = s.primaryProvider
    /\ fallbackProvider' = s.fallbackProvider
    /\ origRequest' = s.origRequest
    /\ getPrimaryAuthHeader' = s.getPrimaryAuthHeader
    /\ getFallbackAuthHeader' = s.getFallbackAuthHeader
    /\ primaryError' = s.primaryError
    /\ result' = s.result
    /\ trace' = s.trace

NoThunk == [throws |-> FALSE, value |-> <<>>, message |-> <<>>]

NoResult == [kind |-> "none", usedProvider |-> "", usage |-> <<>>, error |-> <<>>]

\* this.telemetry.log(event): the buffer takes the event and the console prints it
Record(s, event) ==
    [s EXCEPT !.telemetryBuffer = Log(s.telemetryBuffer, s.functionName, event, s.now),
              !.inserted = Append(s.inserted, NewEvent(s.functionName, event, s.now)),
              !.trace = Append(s.trace,
                   [kind |-> "log", phase |-> s.phase, provider |-> event.provider,
                    status |-> event.status, message |-> event.errorMessage,
                    usage |-> event.tokenUsage, delay |-> 0,
                    request |-> NoRequest])]

\* makeHttpRequest: the fetch is issued and awaited
IssueFetch(s) ==
    [s EXCEPT !.pc = "fetching",
              !.trace = Append(s.trace,
                   [kind |-> "http", phase |-> s.phase, provider |-> s.provider.name,
                    status |-> "", message |-> <<>>, usage |-> <<>>, delay |-> 0,
                    request |-> s.request])]

\* this.sleep(delay): the timer is set and awaited
StartSleep(s, delay) ==
    [s EXCEPT !.pc = "sleeping", !.pendingDelay = delay,
              !.trace = Append(s.trace,
                   [kind |-> "sleep", phase |-> s.phase, provider |-> s.provider.name,
                    status |-> "", message |-> <<>>, usage |-> <<>>,
                    delay |-> delay, request |-> NoRequest])]

\* makeRequestWithFallback or the direct caller receives the value or the error
Finish(s, kind, usedProvider, usage, error) ==
    [s EXCEPT !.pc = "done",
              !.result = [kind |-> kind, usedProvider |-> usedProvider,
                          usage |-> usage, error |-> error]]

\* Throw that loses the error on the way to the caller
ThrowWithoutMessage(s, message) == [s EXCEPT !.pc = "throwing", !.thrown = <<>>]

\* throw / return out of makeRequest: the caller's continuation runs next
Throw(s, message) == [s EXCEPT !.pc = "throwing", !.thrown = message]
Return(s, data) == [s EXCEPT !.pc = "returning", !.returned = data]

\* makeRequest, lines 104-106: the statements after the loop
AfterLoop(s) ==
    LET message == IF s.lastError = <<>> THEN <<"Unknown error">> ELSE s.lastError
        thrown  == IF s.lastError = <<>>
                   THEN <<"Unexpected error in retry logic">> ELSE s.lastError
    IN  Throw(Record(s, TimerFailure(s.provider.name, s.timerStart, s.now, message)),
              thrown)

\* makeRequest, lines 61-76: the head of one loop iteration, up to its first await
LoopTop(s) ==
    IF LoopContinues(s.retryConfig, s.attempt)
    THEN IF s.attempt > 0
         THEN StartSleep(
                Record(s, TimerRetry(s.provider.name, s.timerStart, s.now, s.attempt)),
                BackoffDelay(s.retryConfig, s.attempt))
         ELSE IssueFetch(s)
    ELSE AfterLoop(s)

\* makeRequest, lines 58-59 and the first iteration: a new timer, no error yet
EnterMakeRequest(s, ph, p, req, auth) ==
    LoopTop([s EXCEPT !.phase = ph, !.provider = p, !.request = req,
                      !.authHeader = auth, !.timerStart = s.now,
                      !.lastError = <<>>, !.attempt = 0])

\* Catch that logs a failure for every error it catches, retried or not
CatchFailureEachTime(s, message) ==
    LET caught == [s EXCEPT !.lastError = message,
                            !.trace = Append(s.trace,
                               [kind |-> "caught", phase |-> s.phase,
                                provider |-> s.provider.name, status |-> "",
                                message |-> message, usage |-> <<>>,
                                delay |-> 0, request |-> NoRequest])]
        failed == Record(caught, TimerFailure(s.provider.name, s.timerStart, s.now,
                                              caught.lastError))
    IN  IF GivesUp(s.retryConfig, s.attempt, message)
        THEN Throw(failed, caught.lastError)
        ELSE LoopTop([failed EXCEPT !.attempt = NextAttempt(s.attempt)])

\* makeRequest, lines 91-101: the catch block
Catch(s, message) ==
    LET caught == [s EXCEPT !.lastError = message,
                            !.trace = Append(s.trace,
                               [kind |-> "caught", phase |-> s.phase,
                                provider |-> s.provider.name, status |-> "",
                                message |-> message, usage |-> <<>>,
                                delay |-> 0, request |-> NoRequest])]
    IN  IF GivesUp(s.retryConfig, s.attempt, message)
        THEN Throw(Record(caught,
                      TimerFailure(s.provider.name, s.timerStart, s.now,
                                   caught.lastError)),
                   caught.lastError)
        ELSE LoopTop([caught EXCEPT !.attempt = NextAttempt(s.attempt)])

\* makeRequest, lines 76-89: what follows the awaited fetch
OnFetch(s, outcome) ==
    IF outcome.kind = "throw" THEN Catch(s, outcome.message)
    ELSE IF ~outcome.ok
         THEN Catch(s, <<"HTTP ", ToString(outcome.status), ": ", outcome.text>>)
    ELSE IF outcome.json = "invalid" THEN Catch(s, <<"Unexpected token">>)
    ELSE Return(Record(s, TimerSuccess(s.provider.name, s.timerStart, s.now,
                                       outcome.usage)),
                outcome.usage)

\* CatchPrimary that rethrows the primary's error instead of trying the fallback
CatchPrimaryRethrows(s) ==
    Finish([s EXCEPT !.phase = "outer", !.primaryError = s.thrown],
           "threw", "", <<>>, s.thrown)

\* CatchPrimary that times the fallback event under the fallback's name
CatchPrimaryWrongName(s) ==
    LET outer   == [s EXCEPT !.phase = "outer", !.primaryError = s.thrown]
        logged  == Record(outer, TimerFallback(s.fallbackProvider.name, s.now, s.now,
                                               s.thrown))
        fallbackRequest == AdaptRequestForProvider(s.origRequest, s.fallbackProvider)
    IN  IF s.getFallbackAuthHeader.throws
        THEN Finish(logged, "threw", "", <<>>,
                    BothFailedMessage(s.primaryProvider, s.thrown,
                                      s.fallbackProvider,
                                      s.getFallbackAuthHeader.message))
        ELSE EnterMakeRequest(logged, "fallback", s.fallbackProvider,
                              fallbackRequest, s.getFallbackAuthHeader.value)

\* CatchPrimary that sends the second round of attempts to the primary again
CatchPrimaryBackToPrimary(s) ==
    LET outer   == [s EXCEPT !.phase = "outer", !.primaryError = s.thrown]
        logged  == Record(outer, TimerFallback(s.primaryProvider.name, s.now, s.now,
                                               s.thrown))
    IN  IF s.getFallbackAuthHeader.throws
        THEN Finish(logged, "threw", "", <<>>,
                    BothFailedMessage(s.primaryProvider, s.thrown,
                                      s.fallbackProvider,
                                      s.getFallbackAuthHeader.message))
        ELSE EnterMakeRequest(logged, "fallback", s.primaryProvider,
                              s.origRequest, s.getFallbackAuthHeader.value)

\* makeRequestWithFallback, lines 122-143: the primary has thrown s.thrown
CatchPrimary(s) ==
    LET outer   == [s EXCEPT !.phase = "outer", !.primaryError = s.thrown]
        logged  == Record(outer, TimerFallback(s.primaryProvider.name, s.now, s.now,
                                               s.thrown))
        fallbackRequest == AdaptRequestForProvider(s.origRequest, s.fallbackProvider)
    IN  IF s.getFallbackAuthHeader.throws
        THEN Finish(logged, "threw", "", <<>>,
                    BothFailedMessage(s.primaryProvider, s.thrown,
                                      s.fallbackProvider,
                                      s.getFallbackAuthHeader.message))
        ELSE EnterMakeRequest(logged, "fallback", s.fallbackProvider,
                              fallbackRequest, s.getFallbackAuthHeader.value)

\* Unwind that logs the fallback event when the fallback's makeRequest has
\* settled instead of before it starts
UnwindFallbackEventLate(s) ==
    LET outer == [s EXCEPT !.phase = "outer", !.primaryError = s.thrown]
        t == IF s.pc = "throwing" /\ s.phase = "primary"
             THEN IF s.getFallbackAuthHeader.throws
                  THEN CatchPrimary(s)
                  ELSE EnterMakeRequest(outer, "fallback", s.fallbackProvider,
                           AdaptRequestForProvider(s.origRequest, s.fallbackProvider),
                           s.getFallbackAuthHeader.value)
             ELSE s
        late == [Record([t EXCEPT !.phase = "outer"],
                        TimerFallback(t.primaryProvider.name, t.now, t.now,
                                      t.primaryError))
                 EXCEPT !.phase = "fallback"]
    IN  CASE t.pc = "returning" /\ t.phase = "direct" ->
                Finish(t, "returned", "", t.returned, <<>>)
          [] t.pc = "returning" /\ t.phase = "primary" ->
                Finish(t, "returned", t.primaryProvider.name, t.returned, <<>>)
          [] t.pc = "returning" /\ t.phase = "fallback" ->
                Finish(late, "returned", t.fallbackProvider.name, t.returned, <<>>)
          [] t.pc = "throwing" /\ t.phase = "direct" ->
                Finish(t, "threw", "", <<>>, t.thrown)
          [] t.pc = "throwing" /\ t.phase = "fallback" ->
                Finish(late, "threw", "", <<>>,
                       BothFailedMessage(t.primaryProvider, t.primaryError,
                                         t.fallbackProvider, t.thrown))
          [] OTHER -> t

\* The continuation of whoever awaits the makeRequest that has just settled
Unwind(s) ==
    LET t == IF s.pc = "throwing" /\ s.phase = "primary" THEN CatchPrimary(s) ELSE s
    IN  CASE t.pc = "returning" /\ t.phase = "direct" ->
                Finish(t, "returned", "", t.returned, <<>>)
          [] t.pc = "returning" /\ t.phase = "primary" ->
                Finish(t, "returned", t.primaryProvider.name, t.returned, <<>>)
          [] t.pc = "returning" /\ t.phase = "fallback" ->
                Finish(t, "returned", t.fallbackProvider.name, t.returned, <<>>)
          [] t.pc = "throwing" /\ t.phase = "direct" ->
                Finish(t, "threw", "", <<>>, t.thrown)
          [] t.pc = "throwing" /\ t.phase = "fallback" ->
                Finish(t, "threw", "", <<>>,
                       BothFailedMessage(t.primaryProvider, t.primaryError,
                                         t.fallbackProvider, t.thrown))
          [] OTHER -> t

-----------------------------------------------------------------------------
(* health-check.ts *)

\* HealthChecker.timeout
HealthTimeoutMs == 5000

\* The providers performStartupHealthCheck probes
HealthNames == { "OpenAI", "OVH", "OVH_SDXL" }

ProviderNamed(name) ==
    CASE name = "OpenAI" -> AI_CONFIG.text.primary
      [] name = "OVH" -> AI_CONFIG.text.fallback
      [] OTHER -> AI_CONFIG.image.primary

\* AI_CONFIG: baseUrl
BaseUrl(name) ==
    CASE name = "OpenAI" -> "https://api.openai.com/v1"
      [] name = "OVH" -> "https://oai.endpoints.kepler.ai.cloud.ovh.net/v1"
      [] OTHER -> "https://stable-diffusion-xl.endpoints.kepler.ai.cloud.ovh.net/api"

\* performProviderHealthCheck: the URL of the GET, per provider name
HealthUrl(name) ==
    IF name \in {"OpenAI", "OVH"} THEN <<BaseUrl(name), "/models">> ELSE <<BaseUrl(name)>>

\* The statuses a probed endpoint answers with
HealthStatuses == { 200, 401, 403, 404, 405, 499, 500, 503 }

\* IsHealthyStatus that takes only 200 for healthy
IsHealthyStatusOkOnly(status) == status = 200

\* performProviderHealthCheck, line 160
IsHealthyStatus(status) == status < 500 /\ status # 401 /\ status # 403

NoHealthCheckResult ==
    [provider |-> "", isHealthy |-> FALSE, responseTimeMs |-> 0, error |-> <<>>,
     timestamp |-> <<>>]

NoSystemHealth ==
    [overall |-> "none", textProviders |-> <<>>, imageProviders |-> <<>>,
     timestamp |-> <<>>]

\* The health checker's variables as one record
Health ==
    [pc |-> healthPc, state |-> probeState, start |-> probeStart,
     status |-> probeStatus, result |-> probeResult, fetches |-> healthFetches,
     log |-> healthLog, system |-> systemHealth, now |-> now, env |-> env]

InstallHealth(h) ==
    /\ healthPc' = h.pc
    /\ probeState' = h.state
    /\ probeStart' = h.start
    /\ probeStatus' = h.status
    /\ probeResult' = h.result
    /\ healthFetches' = h.fetches
    /\ healthLog' = h.log
    /\ systemHealth' = h.system

\* Settle of a probe that returns its result without reporting it
SettleUnreported(h, name, isHealthy, responseTimeMs, error) ==
    [h EXCEPT !.state[name] = "done",
              !.result[name] = [provider |-> name, isHealthy |-> isHealthy,
                                responseTimeMs |-> responseTimeMs, error |-> error,
                                timestamp |-> ToISOString(h.now)]]

\* checkProvider returns result: logProviderHealth prints it first
Settle(h, name, isHealthy, responseTimeMs, error) ==
    [h EXCEPT !.state[name] = "done",
              !.result[name] = [provider |-> name, isHealthy |-> isHealthy,
                                responseTimeMs |-> responseTimeMs, error |-> error,
                                timestamp |-> ToISOString(h.now)],
              !.log = Append(h.log, [provider |-> name, isHealthy |-> isHealthy,
                                     responseTime |-> responseTimeMs])]

\* CheckProvider that probes the endpoint without looking at the credential
CheckProviderNoShortCircuit(h, name) ==
    [h EXCEPT !.state[name] = "fetching",
              !.start[name] = h.now,
              !.fetches = Append(h.fetches,
                  [provider |-> name, url |-> HealthUrl(name),
                   authorization |-> GetAuthHeader(h.env, ProviderNamed(name)).value])]

\* checkProvider, lines 63-83 and 110-150: up to its return or its first await
CheckProvider(h, name) ==
    IF ~CheckProviderAvailability(h.env, ProviderNamed(name))
    THEN Settle([h EXCEPT !.start[name] = h.now], name, FALSE, 0,
                <<"API key not configured or invalid">>)
    ELSE [h EXCEPT !.state[name] = "fetching",
                   !.start[name] = h.now,
                   !.fetches = Append(h.fetches,
                       [provider |-> name, url |-> HealthUrl(name),
                        authorization |->
                            GetAuthHeader(h.env, ProviderNamed(name)).value])]

\* checkProvider, lines 84-94: performProviderHealthCheck returned
OnHealthResponse(h, name, status) ==
    Settle([h EXCEPT !.status[name] = status], name, IsHealthyStatus(status),
           h.now - h.start[name], Undefined)

\* OnHealthError of a probe without catch: the error leaves checkProvider and
\* rejects the Promise.all and performStartupHealthCheck with it
OnHealthErrorUncaught(h, name, message) == [h EXCEPT !.pc = "failed"]

\* checkProvider, lines 96-107: performProviderHealthCheck threw
OnHealthError(h, name, message) ==
    Settle(h, name, FALSE, h.now - h.start[name], message)

\* OnAbort of one controller shared by the probes: every pending fetch rejects
OnAbortShared(h, name) ==
    LET message == <<"Health check timeout after ", ToString(HealthTimeoutMs), "ms">>
        h1 == IF h.state["OpenAI"] = "fetching"
              THEN OnHealthError(h, "OpenAI", message) ELSE h
        h2 == IF h1.state["OVH"] = "fetching"
              THEN OnHealthError(h1, "OVH", message) ELSE h1
    IN  IF h2.state["OVH_SDXL"] = "fetching"
        THEN OnHealthError(h2, "OVH_SDXL", message) ELSE h2

\* OnAbort of a timer that is not wired to the fetch: the probe stays pending
OnAbortUnwired(h, name) == h

\* performProviderHealthCheck, lines 113 and 162-165: controller.abort()
\* rejects the fetch with an AbortError, rethrown as a timeout and caught by
\* checkProvider
OnAbort(h, name) ==
    OnHealthError(h, name,
                  <<"Health check timeout after ", ToString(HealthTimeoutMs), "ms">>)

\* Overall that calls a check with one healthy probe healthy
OverallAnyHealthy(healthyCount, totalCount) ==
    IF healthyCount > 0 THEN "healthy" ELSE "unhealthy"

\* performStartupHealthCheck, lines 42-49
Overall(healthyCount, totalCount) ==
    IF healthyCount = totalCount THEN "healthy"
    ELSE IF healthyCount > 0 THEN "degraded"
    ELSE "unhealthy"

\* performStartupHealthCheck, lines 38-59: the three results are in
Aggregate(h) ==
    LET textProviders  == <<h.result["OpenAI"], h.result["OVH"]>>
        imageProviders == <<h.result["OVH_SDXL"]>>
        allResults     == textProviders \o imageProviders
        healthyCount   == Len(SelectSeq(allResults, LAMBDA r : r.isHealthy))
        totalCount     == Len(allResults)
    IN  [h EXCEPT !.pc = "done",
                  !.system = [overall |-> Overall(healthyCount, totalCount),
                              textProviders |-> textProviders,
                              imageProviders |-> imageProviders,
                              timestamp |-> ToISOString(h.now)]]

\* AfterImage that does not await the image probe before it aggregates
AfterImageNoJoin(h) ==
    IF h.pc = "image" THEN Aggregate(h) ELSE h

\* The continuation of the second Promise.all, lines 34-36
AfterImage(h) ==
    IF h.pc = "image" /\ h.state["OVH_SDXL"] = "done" THEN Aggregate(h) ELSE h

\* The continuation of the first Promise.all, lines 29-32: the image probe
\* starts when both text probes have returned
AfterText(h) ==
    IF h.pc = "text" /\ h.state["OpenAI"] = "done" /\ h.state["OVH"] = "done"
    THEN AfterImage(CheckProvider([h EXCEPT !.pc = "image"], "OVH_SDXL"))
    ELSE AfterImage(h)

-----------------------------------------------------------------------------
(* Actions of the client *)

\* new AIClient(functionName, retryConfig)
NewAIClient(fnName, cfg) ==
    /\ ~constructed
    /\ constructed' = TRUE
    /\ functionName' = fnName
    /\ retryConfig' = cfg
    /\ UNCHANGED <<telemetryBuffer, inserted, now, lastOp, stats, pc, phase, provider,
                   request, authHeader, timerStart, attempt, lastError,
                   pendingDelay, primaryProvider, fallbackProvider, origRequest,
                   getPrimaryAuthHeader, getFallbackAuthHeader, primaryError,
                   result, trace>>
    /\ UNCHANGED restVars

\* client.makeRequest(provider, request, authHeader), up to its first await
CallMakeRequest(p, req) ==
    /\ constructed
    /\ pc = "idle"
    /\ Install(Unwind(EnterMakeRequest(State, "direct", p, req,
                                        GetAuthHeader(env, p).value)))
    /\ UNCHANGED <<constructed, lastOp, stats>>
    /\ UNCHANGED restVars

\* CallMakeRequestWithFallback that computes the primary's auth header before
\* its try block: an error of the callback leaves the call at once
CallMakeRequestWithFallbackAuthOutsideTry(primary, fallback, req, primaryKind, fallbackKind) ==
    /\ constructed
    /\ pc = "idle"
    /\ LET getPrimary  == AuthThunk(primaryKind, env, primary)
           getFallback == AuthThunk(fallbackKind, env, fallback)
           called == [State EXCEPT !.phase = "primary",
                                   !.primaryProvider = primary,
                                   !.fallbackProvider = fallback,
                                   !.origRequest = req,
                                   !.getPrimaryAuthHeader = getPrimary,
                                   !.getFallbackAuthHeader = getFallback]
       IN  IF getPrimary.throws
           THEN Install(Finish(called, "threw", "", <<>>, getPrimary.message))
           ELSE Install(Unwind(EnterMakeRequest(called, "primary", primary, req,
                                                getPrimary.value)))
    /\ UNCHANGED <<constructed, lastOp, stats>>
    /\ UNCHANGED restVars

\* client.makeRequestWithFallback(...), up to its first await
CallMakeRequestWithFallback(primary, fallback, req, primaryKind, fallbackKind) ==
    /\ constructed
    /\ pc = "idle"
    /\ LET getPrimary  == AuthThunk(primaryKind, env, primary)
           getFallback == AuthThunk(fallbackKind, env, fallback)
           called == [State EXCEPT !.phase = "primary",
                                   !.primaryProvider = primary,
                                   !.fallbackProvider = fallback,
                                   !.origRequest = req,
                                   !.getPrimaryAuthHeader = getPrimary,
                                   !.getFallbackAuthHeader = getFallback]
       IN  IF getPrimary.throws
           THEN Install(Unwind(CatchPrimary(Throw(called, getPrimary.message))))
           ELSE Install(Unwind(EnterMakeRequest(called, "primary", primary, req,
                                                getPrimary.value)))
    /\ UNCHANGED <<constructed, lastOp, stats>>
    /\ UNCHANGED restVars

\* the awaited fetch settles
FetchResolves(outcome) ==
    /\ pc = "fetching"
    /\ Install(Unwind(OnFetch([State EXCEPT !.now = now + HttpLatencyMs], outcome)))
    /\ UNCHANGED <<constructed, lastOp, stats>>
    /\ UNCHANGED restVars

\* the awaited backoff sleep is over: the next fetch is issued
SleepResolves ==
    /\ pc = "sleeping"
    /\ Install(IssueFetch([State EXCEPT !.now = now + pendingDelay]))
    /\ UNCHANGED <<constructed, lastOp, stats>>
    /\ UNCHANGED restVars

-----------------------------------------------------------------------------
(* Actions on the telemetry module *)

NoStats == <<>>
NoOp == [op |-> "none", timeWindow |-> NoWindow, size |-> 0]

\* The events other timers of the process log: what PerformanceTimer hands to log
LoggedEvents ==
    { TimerSuccess("OpenAI", 0, 3, <<42>>),
      TimerFailure("OpenAI", 0, 0, <<"HTTP ", "401", ": ", "Unauthorized">>),
      TimerRetry("OVH", 0, 3, 1),
      TimerFallback("OVH", 0, 0, <<"HTTP ", "503", ": ", "Service Unavailable">>) }

\* Time passes
Tick ==
    /\ now < MaxTime
    /\ now' = now + 1
    /\ lastOp' = NoOp
    /\ stats' = NoStats
    /\ UNCHANGED <<telemetryBuffer, inserted>>
    /\ UNCHANGED clientVars
    /\ UNCHANGED restVars

\* telemetry.log(event), called by some timer of the process
LogEvent(fnName, event) ==
    /\ Len(inserted) < MaxLogs
    /\ telemetryBuffer' = Log(telemetryBuffer, fnName, event, now)
    /\ inserted' = Append(inserted, NewEvent(fnName, event, now))
    /\ lastOp' = [op |-> "log", timeWindow |-> NoWindow,
                 size |-> Len(telemetryBuffer)]
    /\ stats' = NoStats
    /\ UNCHANGED now
    /\ UNCHANGED clientVars
    /\ UNCHANGED restVars

\* CallGetTelemetryStats that filters the buffer in place: the events outside
\* the window are gone after the call
CallGetTelemetryStatsDraining(timeWindow) ==
    /\ stats' = GetTelemetryStats(telemetryBuffer, timeWindow, now)
    /\ telemetryBuffer' = RelevantEvents(telemetryBuffer, CutoffTime(timeWindow, now))
    /\ lastOp' = [op |-> "getTelemetryStats", timeWindow |-> timeWindow,
                 size |-> Len(telemetryBuffer)]
    /\ UNCHANGED <<inserted, now>>
    /\ UNCHANGED clientVars
    /\ UNCHANGED restVars

\* getTelemetryStats(timeWindow); the caller reads the returned value at once
CallGetTelemetryStats(timeWindow) ==
    /\ stats' = GetTelemetryStats(telemetryBuffer, timeWindow, now)
    /\ lastOp' = [op |-> "getTelemetryStats", timeWindow |-> timeWindow,
                 size |-> Len(telemetryBuffer)]
    /\ UNCHANGED <<telemetryBuffer, inserted, now>>
    /\ UNCHANGED clientVars
    /\ UNCHANGED restVars

\* getTelemetryBufferSize()
GetTelemetryBufferSize(buffer) == Len(buffer)

\* clearTelemetryBuffer()
CallClearTelemetryBuffer ==
    /\ telemetryBuffer' = ClearTelemetryBuffer(telemetryBuffer)
    /\ inserted' = <<>>
    /\ lastOp' = [op |-> "clearTelemetryBuffer", timeWindow |-> NoWindow,
                 size |-> Len(telemetryBuffer)]
    /\ stats' = NoStats
    /\ UNCHANGED now
    /\ UNCHANGED clientVars
    /\ UNCHANGED restVars

\* The requests in flight at the same time: each is one makeRequest call of
\* its own AIClient, addressed to the provider it is named after
ConcurrentRequests == { "OpenAI", "OVH" }

NoTask == [pc |-> "idle", attempt |-> 0, startTime |-> 0]

-----------------------------------------------------------------------------
(* Specifications *)

Init ==
    /\ telemetryBuffer = <<>>
    /\ inserted = <<>>
    /\ now = 1
    /\ lastOp = NoOp
    /\ stats = NoStats
    /\ constructed = FALSE
    /\ functionName = ""
    /\ retryConfig = DEFAULT_RETRY_CONFIG
    /\ pc = "idle"
    /\ phase = "none"
    /\ provider = NoProvider
    /\ request = NoRequest
    /\ authHeader = <<>>
    /\ timerStart = 0
    /\ attempt = 0
    /\ lastError = <<>>
    /\ pendingDelay = 0
    /\ primaryProvider = NoProvider
    /\ fallbackProvider = NoProvider
    /\ origRequest = NoRequest
    /\ getPrimaryAuthHeader = NoThunk
    /\ getFallbackAuthHeader = NoThunk
    /\ primaryError = <<>>
    /\ result = NoResult
    /\ trace = <<>>
    /\ classified = NoClassification
    /\ tasks = [t \in ConcurrentRequests |-> NoTask]
    /\ env = [name \in EnvNames |-> << <<"sk-", "live-key">> >>]
    /\ lookup = NoLookup
    /\ healthPc = "idle"
    /\ probeState = [name \in HealthNames |-> "notStarted"]
    /\ probeStart = [name \in HealthNames |-> 0]
    /\ probeStatus = [name \in HealthNames |-> 0]
    /\ probeResult = [name \in HealthNames |-> NoHealthCheckResult]
    /\ healthFetches = <<>>
    /\ healthLog = <<>>
    /\ systemHealth = NoSystemHealth

TextProviders == { AI_CONFIG.text.primary, AI_CONFIG.text.fallback }

\* The providers a caller hands to the client
PrimaryProviders == { AI_CONFIG.text.primary, Custom }

FallbackProviders == { AI_CONFIG.text.fallback, Custom }

\* One logical call of a freshly constructed client
Next ==
    \/ \E fnName \in FunctionNames, cfg \in RetryConfigs : NewAIClient(fnName, cfg)
    \/ \E p \in TextProviders, req \in Requests : CallMakeRequest(p, req)
    \/ \E primary \in PrimaryProviders, req \in Requests :
         \E fallback \in FallbackProviders \ {primary} :
            \E primaryKind \in AuthThunkKinds(primary),
               fallbackKind \in AuthThunkKinds(fallback) :
               CallMakeRequestWithFallback(primary, fallback, req,
                                           primaryKind, fallbackKind)
    \/ \E outcome \in FetchOutcomes : FetchResolves(outcome)
    \/ SleepResolves

Spec == Init /\ [][Next]_vars

\* The retry configurations with the default delays
DefaultDelayConfigs ==
    { cfg \in RetryConfigs : cfg.baseDelayMs = DEFAULT_RETRY_CONFIG.baseDelayMs
                              /\ cfg.maxDelayMs = DEFAULT_RETRY_CONFIG.maxDelayMs }

\* A fetch that succeeds, one that fails with a retryable error and one that
\* fails with a fatal error
SomeFetchOutcomes ==
    { outcome \in FetchOutcomes :
        \/ outcome.status \in {503, 401}
        \/ outcome.json = "valid" /\ outcome.usage # <<>> }

\* One makeRequestWithFallback call of a freshly constructed client
NextFallbackCall ==
    \/ \E fnName \in FunctionNames, cfg \in DefaultDelayConfigs :
          NewAIClient(fnName, cfg)
    \/ \E primary \in PrimaryProviders, req \in Requests :
         \E fallback \in FallbackProviders \ {primary} :
            \E primaryKind \in AuthThunkKinds(primary),
               fallbackKind \in AuthThunkKinds(fallback) :
               CallMakeRequestWithFallback(primary, fallback, req,
                                           primaryKind, fallbackKind)
    \/ \E outcome \in SomeFetchOutcomes : FetchResolves(outcome)
    \/ SleepResolves

\* The call when every HTTP call eventually completes or errors and every
\* sleep timer eventually fires
SpecFallbackLive ==
    /\ Init
    /\ [][NextFallbackCall]_vars
    /\ WF_vars(\E outcome \in SomeFetchOutcomes : FetchResolves(outcome))
    /\ WF_vars(SleepResolves)

\* One makeRequestWithFallback call whose primary is a provider outside
\* AI_CONFIG, with a fallback of AI_CONFIG or a second provider outside it
NextUnlistedCall ==
    \/ \E fnName \in FunctionNames, cfg \in DefaultDelayConfigs :
          NewAIClient(fnName, cfg)
    \/ \E fallback \in { AI_CONFIG.text.fallback, Unlisted }, req \in Requests :
          \E primaryKind \in AuthThunkKinds(Custom),
             fallbackKind \in AuthThunkKinds(fallback) :
             CallMakeRequestWithFallback(Custom, fallback, req,
                                         primaryKind, fallbackKind)
    \/ \E outcome \in SomeFetchOutcomes : FetchResolves(outcome)
    \/ SleepResolves

SpecUnlistedCall == Init /\ [][NextUnlistedCall]_vars

\* this.isRetryableError(error) on an error with the given message
Classify(message) ==
    /\ classified' = [message |-> message, retryable |-> IsRetryableError(message)]
    /\ UNCHANGED telemetryVars
    /\ UNCHANGED clientVars
    /\ UNCHANGED registryVars
    /\ UNCHANGED healthVars
    /\ UNCHANGED tasks

\* The providers handed to the registry's functions
RegistryProviders == { OpenAI, OVH, OVH_SDXL, Custom }

\* The environment variable is set, changed or unset between two calls
SetEnv(name, value) ==
    /\ env[name] # value
    /\ env' = [env EXCEPT ![name] = value]
    /\ lookup' = NoLookup
    /\ UNCHANGED <<telemetryVars, clientVars, classified, tasks, healthVars>>

\* checkProviderAvailability(provider)
CallCheckProviderAvailability(p) ==
    /\ lookup' = [NoLookup EXCEPT !.op = "checkProviderAvailability",
                                  !.arg = p.name,
                                  !.available = CheckProviderAvailability(env, p)]
    /\ UNCHANGED <<telemetryVars, clientVars, classified, tasks, env, healthVars>>

\* getAuthHeader(provider)
CallGetAuthHeader(p) ==
    /\ lookup' = [NoLookup EXCEPT !.op = "getAuthHeader",
                                  !.arg = p.name,
                                  !.throws = GetAuthHeader(env, p).throws,
                                  !.header = GetAuthHeader(env, p).value,
                                  !.message = GetAuthHeader(env, p).message]
    /\ UNCHANGED <<telemetryVars, clientVars, classified, tasks, env, healthVars>>

\* getAvailableTextProvider()
CallGetAvailableTextProvider ==
    /\ lookup' = [NoLookup EXCEPT !.op = "getAvailableTextProvider",
                                  !.throws = GetAvailableTextProvider(env).throws,
                                  !.provider = GetAvailableTextProvider(env).provider,
                                  !.message = GetAvailableTextProvider(env).message]
    /\ UNCHANGED <<telemetryVars, clientVars, classified, tasks, env, healthVars>>

\* getImageProvider()
CallGetImageProvider ==
    /\ lookup' = [NoLookup EXCEPT !.op = "getImageProvider",
                                  !.throws = GetImageProvider(env).throws,
                                  !.provider = GetImageProvider(env).provider,
                                  !.message = GetImageProvider(env).message]
    /\ UNCHANGED <<telemetryVars, clientVars, classified, tasks, env, healthVars>>

\* The registry under any environment, changed between any two calls
NextRegistry ==
    \/ \E name \in EnvNames, value \in EnvValues : SetEnv(name, value)
    \/ \E p \in RegistryProviders : CallCheckProviderAvailability(p)
    \/ \E p \in RegistryProviders : CallGetAuthHeader(p)
    \/ CallGetAvailableTextProvider
    \/ CallGetImageProvider

SpecRegistry == Init /\ [][NextRegistry]_vars

\* new HealthChecker().performStartupHealthCheck(), up to its first await
CallPerformStartupHealthCheck ==
    /\ healthPc = "idle"
    /\ InstallHealth(AfterText(CheckProvider(
            CheckProvider([Health EXCEPT !.pc = "text"], "OpenAI"), "OVH")))
    /\ UNCHANGED <<telemetryVars, clientVars, classified, tasks, registryVars>>

\* the probe's fetch resolves with a response
HealthFetchResolves(name, status) ==
    /\ probeState[name] = "fetching"
    /\ InstallHealth(AfterText(OnHealthResponse(Health, name, status)))
    /\ UNCHANGED <<telemetryVars, clientVars, classified, tasks, registryVars>>

\* the probe's fetch rejects: the endpoint cannot be reached
HealthFetchRejects(name) ==
    /\ probeState[name] = "fetching"
    /\ InstallHealth(AfterText(OnHealthError(Health, name,
                                              <<"Connection", " refused">>)))
    /\ UNCHANGED <<telemetryVars, clientVars, classified, tasks, registryVars>>

\* setTimeout, line 113: the callback of a timer runs when the timer is due
TimerDue(name) ==
    probeState[name] = "fetching" /\ now >= probeStart[name] + HealthTimeoutMs

\* the probe's timer fires: controller.abort() rejects the fetch with an
\* AbortError, rethrown as a timeout
HealthTimerFires(name) ==
    /\ TimerDue(name)
    /\ InstallHealth(AfterText(OnAbort(Health, name)))
    /\ UNCHANGED <<telemetryVars, clientVars, classified, tasks, registryVars>>

\* time passes while probes are in flight, up to the next due timer
HealthTick ==
    /\ healthPc \in {"text", "image"}
    /\ \A name \in HealthNames : ~TimerDue(name)
    /\ now + HealthTickMs <= 1 + MaxHealthTicks * HealthTickMs
    /\ now' = now + HealthTickMs
    /\ UNCHANGED <<telemetryBuffer, inserted, lastOp, stats>>
    /\ UNCHANGED <<clientVars, classified, tasks, registryVars, healthVars>>

\* The environment is prepared before the health check starts
PrepareEnv(name, value) ==
    /\ healthPc = "idle"
    /\ SetEnv(name, value)

\* One startup health check under any environment and any answers
NextHealth ==
    \/ \E name \in EnvNames, value \in EnvValues : PrepareEnv(name, value)
    \/ CallPerformStartupHealthCheck
    \/ \E name \in HealthNames, status \in HealthStatuses :
          HealthFetchResolves(name, status)
    \/ \E name \in HealthNames : HealthFetchRejects(name)
    \/ \E name \in HealthNames : HealthTimerFires(name)
    \/ HealthTick

SpecHealth == Init /\ [][NextHealth]_vars

\* The same check on a running event loop: time passes and due timers fire;
\* nothing obliges a probed endpoint to answer
SpecHealthLive ==
    /\ Init
    /\ [][NextHealth]_vars
    /\ WF_vars(HealthTick)
    /\ \A name \in HealthNames : WF_vars(HealthTimerFires(name))

\* timer.success / failure / retry of a concurrent request: one synchronous
\* call of telemetry.log, run to completion before any other callback
TaskLogs(event) ==
    /\ telemetryBuffer' = Log(telemetryBuffer, "generate-story-segment", event, now)
    /\ inserted' = Append(inserted, NewEvent("generate-story-segment", event, now))
    /\ lastOp' = [op |-> "log", timeWindow |-> NoWindow,
                 size |-> Len(telemetryBuffer)]
    /\ stats' = NoStats
    /\ UNCHANGED now

\* makeRequest of a concurrent request, lines 58-76: up to its first await
StartRequest(t) ==
    /\ tasks[t].pc = "idle"
    /\ tasks' = [tasks EXCEPT ![t] = [pc |-> "fetching", attempt |-> 0,
                                      startTime |-> now]]
    /\ UNCHANGED <<telemetryVars, clientVars, classified, registryVars, healthVars>>

\* RequestFetchSucceeds under a sleep that blocks the thread: no callback
\* runs while some request sleeps
RequestFetchSucceedsUnlessBlocked(t) ==
    /\ tasks[t].pc = "fetching"
    /\ \A u \in ConcurrentRequests : tasks[u].pc # "sleeping"
    /\ TaskLogs(TimerSuccess(t, tasks[t].startTime, now, <<42>>))
    /\ tasks' = [tasks EXCEPT ![t].pc = "done"]
    /\ UNCHANGED <<clientVars, classified, registryVars, healthVars>>

\* makeRequest, lines 76-89: the fetch of a concurrent request is answered
RequestFetchSucceeds(t) ==
    /\ tasks[t].pc = "fetching"
    /\ TaskLogs(TimerSuccess(t, tasks[t].startTime, now, <<42>>))
    /\ tasks' = [tasks EXCEPT ![t].pc = "done"]
    /\ UNCHANGED <<clientVars, classified, registryVars, healthVars>>

\* makeRequest, lines 91-101 and 61-74: the fetch of a concurrent request
\* fails; the catch block gives up or the loop logs a retry and sleeps
RequestFetchFails(t, message) ==
    /\ tasks[t].pc = "fetching"
    /\ IF GivesUp(DEFAULT_RETRY_CONFIG, tasks[t].attempt, message)
       THEN /\ TaskLogs(TimerFailure(t, tasks[t].startTime, now, message))
            /\ tasks' = [tasks EXCEPT ![t].pc = "done"]
       ELSE /\ TaskLogs(TimerRetry(t, tasks[t].startTime, now,
                                   NextAttempt(tasks[t].attempt)))
            /\ tasks' = [tasks EXCEPT ![t].pc = "sleeping",
                                      ![t].attempt = NextAttempt(tasks[t].attempt)]
    /\ UNCHANGED <<clientVars, classified, registryVars, healthVars>>

\* makeRequest, lines 74-76: the sleep of a concurrent request is over
RequestSleepResolves(t) ==
    /\ tasks[t].pc = "sleeping"
    /\ tasks' = [tasks EXCEPT ![t].pc = "fetching"]
    /\ UNCHANGED <<telemetryVars, clientVars, classified, registryVars, healthVars>>

\* The errors the fetch of a concurrent request fails with
TaskErrors ==
    { <<"HTTP ", "503", ": ", "Service Unavailable">>,
      <<"HTTP ", "401", ": ", "Unauthorized">> }

\* Two requests and the startup health check in flight at the same instant,
\* and a caller of clearTelemetryBuffer: every order of their callbacks
NextConcurrent ==
    \/ \E t \in ConcurrentRequests : StartRequest(t)
    \/ \E t \in ConcurrentRequests : RequestFetchSucceeds(t)
    \/ \E t \in ConcurrentRequests, message \in TaskErrors :
          RequestFetchFails(t, message)
    \/ \E t \in ConcurrentRequests : RequestSleepResolves(t)
    \/ CallClearTelemetryBuffer
    \/ CallPerformStartupHealthCheck
    \/ \E name \in HealthNames, status \in {200, 500} :
          HealthFetchResolves(name, status)

SpecConcurrent == Init /\ [][NextConcurrent]_vars

\* The classifier alone, on every message of the bounded vocabulary
NextClassify == \E message \in ErrorMessages : Classify(message)

SpecClassify == Init /\ [][NextClassify]_vars

\* The telemetry module under any sequence of its operations
TimeWindows == { NoWindow, InfiniteWindow } \cup { WindowOf(w) : w \in 0..MaxTime }

NextTelemetry ==
    \/ Tick
    \/ \E fnName \in FunctionNames, event \in LoggedEvents : LogEvent(fnName, event)
    \/ \E timeWindow \in TimeWindows : CallGetTelemetryStats(timeWindow)
    \/ CallClearTelemetryBuffer

SpecTelemetry == Init /\ [][NextTelemetry]_vars

-----------------------------------------------------------------------------
(* Reading the trace *)

\* The makeRequest invocations a call can hold
Invocations == { "direct", "primary", "fallback" }

\* The entries of one kind that one invocation left, in order
Entries(ph, kind) ==
    SelectSeq(trace, LAMBDA e : e.phase = ph /\ e.kind = kind)

\* The events of one status that one invocation handed to log
Logged(ph, status) ==
    SelectSeq(trace, LAMBDA e : e.phase = ph /\ e.kind = "log" /\ e.status = status)

\* The events of one status logged under one provider name during the whole call
LoggedUnder(name, status) ==
    SelectSeq(trace, LAMBDA e : e.kind = "log" /\ e.status = status /\ e.provider = name)

\* The positions of the trace that one invocation, or one kind of entry of it, fills
PositionsOf(ph) == { i \in 1..Len(trace) : trace[i].phase = ph }

PositionsOfKind(ph, kind) == { i \in PositionsOf(ph) : trace[i].kind = kind }

\* part occurs in whole as a run of consecutive fragments
OccursIn(part, whole) ==
    \E i \in 0..(Len(whole) - Len(part)) :
        \A k \in 1..Len(part) : whole[i + k] = part[k]

-----------------------------------------------------------------------------
(* Claims on the retry loop of makeRequest *)

\* C1: one makeRequest invocation issues at most maxRetries + 1 HTTP attempts,
\* in particular when every error it meets is retryable.
C1_AttemptsBounded ==
    \A ph \in Invocations :
        Len(Entries(ph, "http")) <= retryConfig.maxRetries + 1

\* A call that met only retryable errors, used every attempt and failed.
C1_Witness ==
    /\ pc = "done"
    /\ phase = "direct"
    /\ retryConfig.maxRetries = MaxRetriesBound
    /\ Len(Entries("direct", "http")) = retryConfig.maxRetries + 1
    /\ Len(Entries("direct", "caught")) = retryConfig.maxRetries + 1
    /\ \A i \in 1..Len(Entries("direct", "caught")) :
          IsRetryableError(Entries("direct", "caught")[i].message)

\* C2 as stated: whenever some attempt of an invocation fails with a fatal
\* error, the invocation made exactly one attempt and logged no retry event.
C2_FatalMeansOneAttempt ==
    \A ph \in Invocations :
        (\E i \in 1..Len(Entries(ph, "caught")) :
            ~IsRetryableError(Entries(ph, "caught")[i].message))
        => /\ Len(Entries(ph, "http")) = 1
           /\ Len(Logged(ph, "retry")) = 0

\* C2 amended: when the first attempt of an invocation fails with a fatal
\* error, the invocation makes exactly one attempt and logs no retry event.
C2_FirstFatalMeansOneAttempt ==
    \A ph \in Invocations :
        (/\ Len(Entries(ph, "caught")) > 0
         /\ ~IsRetryableError(Entries(ph, "caught")[1].message))
        => /\ Len(Entries(ph, "http")) = 1
           /\ Len(Logged(ph, "retry")) = 0
           /\ Len(Entries(ph, "sleep")) = 0

\* A finished call whose only attempt failed with a fatal error.
C2_Witness ==
    /\ pc = "done"
    /\ phase = "direct"
    /\ retryConfig.maxRetries > 0
    /\ Len(Entries("direct", "caught")) = 1
    /\ ~IsRetryableError(Entries("direct", "caught")[1].message)
    /\ Len(Logged("direct", "failure")) = 1

\* C3: the k-th backoff sleep of an invocation lasts
\* min(baseDelay * backoffMultiplier^(k-1), maxDelay), so never more than maxDelay.
C3_BackoffDelayExact ==
    \A ph \in Invocations :
        \A k \in 1..Len(Entries(ph, "sleep")) :
            LET slept    == Entries(ph, "sleep")[k].delay
                uncapped == retryConfig.baseDelayMs
                            * Pow(retryConfig.backoffMultiplier, k - 1)
            IN  /\ slept = IF uncapped < retryConfig.maxDelayMs
                           THEN uncapped ELSE retryConfig.maxDelayMs
                /\ slept <= retryConfig.maxDelayMs
                /\ k <= retryConfig.maxRetries

\* An invocation that slept twice, the first time below the ceiling and the
\* second time at it.
C3_Witness ==
    /\ Len(Entries("direct", "sleep")) >= 2
    /\ Entries("direct", "sleep")[1].delay = retryConfig.baseDelayMs
    /\ Entries("direct", "sleep")[1].delay < retryConfig.maxDelayMs
    /\ Entries("direct", "sleep")[2].delay = retryConfig.maxDelayMs
    /\ retryConfig.baseDelayMs * retryConfig.backoffMultiplier > retryConfig.maxDelayMs
    /\ pc = "fetching"

-----------------------------------------------------------------------------
(* Claims on makeRequestWithFallback *)

\* The call is a makeRequestWithFallback call
WithFallback == primaryProvider # NoProvider

\* The primary's makeRequest ended by logging a failure and throwing
PrimaryFatal == Len(Logged("primary", "failure")) > 0

\* A request was sent to the fallback provider
FallbackRequested == Len(Entries("fallback", "http")) > 0

\* C4 as stated: a request goes to the fallback provider if and only if the
\* primary's attempt state machine ended in Fatal, and never when the primary
\* succeeded.
C4_FallbackIffPrimaryFatal ==
    WithFallback =>
        /\ FallbackRequested <=> PrimaryFatal
        /\ Len(Logged("primary", "success")) > 0 => ~FallbackRequested

\* C4 amended: a request goes to the fallback provider if and only if the
\* primary did not succeed (its attempt state machine ended in Fatal, or
\* computing its auth header threw) and the fallback's auth header could be
\* computed; never when the primary succeeded.
C4_FallbackIffPrimaryFailed ==
    WithFallback =>
        /\ FallbackRequested <=>
              /\ PrimaryFatal \/ getPrimaryAuthHeader.throws
              /\ ~getFallbackAuthHeader.throws
        /\ Len(Logged("primary", "success")) > 0 => ~FallbackRequested
        /\ \A i \in 1..Len(trace) :
              trace[i].kind = "http" =>
                 trace[i].provider = IF trace[i].phase = "primary"
                                     THEN primaryProvider.name
                                     ELSE fallbackProvider.name

\* The primary retried, ended in Fatal, and the fallback was then requested.
C4_Witness ==
    /\ WithFallback
    /\ pc = "done"
    /\ Len(Entries("primary", "http")) > 1
    /\ PrimaryFatal
    /\ FallbackRequested
    /\ \A i \in PositionsOfKind("fallback", "http") :
          \A k \in PositionsOf("primary") : k < i

\* The last error of each provider: the last one its makeRequest caught, or
\* the one its auth-header callback threw
PrimaryFinalError ==
    IF Len(Entries("primary", "caught")) > 0
    THEN Entries("primary", "caught")[Len(Entries("primary", "caught"))].message
    ELSE getPrimaryAuthHeader.message

FallbackFinalError ==
    IF Len(Entries("fallback", "caught")) > 0
    THEN Entries("fallback", "caught")[Len(Entries("fallback", "caught"))].message
    ELSE getFallbackAuthHeader.message

BothFailed ==
    /\ WithFallback
    /\ pc = "done"
    /\ PrimaryFatal \/ getPrimaryAuthHeader.throws
    /\ Len(Logged("fallback", "failure")) > 0 \/ getFallbackAuthHeader.throws

\* C5: when the primary and the fallback both fail, the call throws an error
\* whose message holds the primary's final error message and the fallback's
\* final error message, each unchanged, with the two provider names.
C5_BothErrorsPreserved ==
    BothFailed =>
        /\ result.kind = "threw"
        /\ PrimaryFinalError # <<>>
        /\ FallbackFinalError # <<>>
        /\ OccursIn(<<primaryProvider.name, "): ">> \o PrimaryFinalError, result.error)
        /\ OccursIn(<<fallbackProvider.name, "): ">> \o FallbackFinalError, result.error)

\* Both providers failed after real attempts, with different errors.
C5_Witness ==
    /\ BothFailed
    /\ Len(Entries("primary", "caught")) > 1
    /\ Len(Entries("fallback", "caught")) > 0
    /\ PrimaryFinalError # FallbackFinalError
    /\ IsRetryableError(PrimaryFinalError)
    /\ ~IsRetryableError(FallbackFinalError)

\* C9: when an invocation meets retryable errors on attempts 1..j-1 and a fatal
\* error on attempt j, it makes exactly j attempts, logs exactly one failure
\* event, that event carries the fatal error's message, and no attempt, sleep
\* or retry event of the invocation follows it.
C9_RetryableThenFatal ==
    \A ph \in Invocations :
        LET caught == Entries(ph, "caught")
            j      == Len(caught)
        IN  (/\ j > 0
             /\ ~IsRetryableError(caught[j].message)
             /\ \A i \in 1..(j - 1) : IsRetryableError(caught[i].message))
            => /\ j <= retryConfig.maxRetries + 1
               /\ Len(Entries(ph, "http")) = j
               /\ Len(Logged(ph, "retry")) = j - 1
               /\ Len(Logged(ph, "failure")) = 1
               /\ Logged(ph, "failure")[1].message = caught[j].message
               /\ Len(Logged(ph, "success")) = 0
               /\ \A f \in { i \in PositionsOfKind(ph, "log") :
                                 trace[i].status = "failure" } :
                     \A k \in PositionsOf(ph) : k <= f

\* The example of the specification: two retryable errors, then a fatal one
\* on the third attempt.
C9_Witness ==
    /\ pc = "done"
    /\ phase = "direct"
    /\ retryConfig.maxRetries = 2
    /\ Len(Entries("direct", "caught")) = 3
    /\ Entries("direct", "caught")[1].message = <<"HTTP ", "503", ": ", "Service Unavailable">>
    /\ Entries("direct", "caught")[2].message = <<"HTTP ", "503", ": ", "Service Unavailable">>
    /\ Entries("direct", "caught")[3].message = <<"HTTP ", "401", ": ", "Unauthorized">>
    /\ result.kind = "threw"

\* The primary used every attempt
PrimaryExhausted ==
    /\ PrimaryFatal
    /\ Len(Entries("primary", "http")) = retryConfig.maxRetries + 1

\* C10: when the primary exhausts its attempts and the fallback succeeds on its
\* first attempt, the call logs exactly one fallback event, under the
\* primary's name, exactly one success event, under the fallback's name, and
\* returns the fallback as usedProvider.
C10_FallbackSucceedsFirstTry ==
    (/\ WithFallback
     /\ pc = "done"
     /\ PrimaryExhausted
     /\ Len(Entries("fallback", "http")) = 1
     /\ Len(Logged("fallback", "success")) > 0)
    => /\ Len(LoggedUnder(primaryProvider.name, "fallback")) = 1
       /\ Len(LoggedUnder(fallbackProvider.name, "fallback")) = 0
       /\ Len(LoggedUnder(fallbackProvider.name, "success")) = 1
       /\ Len(LoggedUnder(primaryProvider.name, "success")) = 0
       /\ result.kind = "returned"
       /\ result.usedProvider = fallbackProvider.name

\* The primary timed out of retries on a retryable error and the fallback
\* answered at once.
C10_Witness ==
    /\ WithFallback
    /\ pc = "done"
    /\ PrimaryExhausted
    /\ retryConfig.maxRetries > 0
    /\ IsRetryableError(primaryError)
    /\ Len(Entries("fallback", "http")) = 1
    /\ result.kind = "returned"
    /\ result.usedProvider = "OVH"

\* The invocation stopped at its last caught error: that error is not
\* retryable, or it was caught at attempt index maxRetries
GaveUp(ph) ==
    LET caught == Entries(ph, "caught")
    IN  /\ Len(caught) > 0
        /\ GivesUp(retryConfig, Len(caught) - 1, caught[Len(caught)].message)

\* The last error the invocation caught
LastCaught(ph) == Entries(ph, "caught")[Len(Entries(ph, "caught"))].message

\* C11 as stated: when an attempt fails with a non-retryable error or at
\* attempt index maxRetries, makeRequest records a failure event and throws an
\* error that carries both the provider and the last error.
C11_ThrowsProviderAndLastError ==
    (phase = "direct" /\ pc = "done" /\ GaveUp("direct"))
    => /\ Len(Logged("direct", "failure")) = 1
       /\ result.kind = "threw"
       /\ OccursIn(LastCaught("direct"), result.error)
       /\ OccursIn(<<provider.name>>, result.error)

\* C11 amended: when an attempt fails with a non-retryable error or at attempt
\* index maxRetries, makeRequest records one failure event, under the
\* provider's name and with the last error's message, and throws the last
\* error itself, unchanged: the provider is named by the event, not by the
\* error.
C11_RethrowsLastError ==
    /\ \A ph \in Invocations :
          GaveUp(ph)
          => /\ Len(Logged(ph, "failure")) = 1
             /\ Logged(ph, "failure")[1].message = LastCaught(ph)
             /\ Logged(ph, "failure")[1].provider =
                    Entries(ph, "caught")[Len(Entries(ph, "caught"))].provider
    /\ (phase = "direct" /\ pc = "done" /\ GaveUp("direct"))
       => /\ result.kind = "threw"
          /\ result.error = LastCaught("direct")
          /\ Logged("direct", "failure")[1].provider = provider.name
    /\ (WithFallback /\ GaveUp("primary"))
       => /\ primaryError = LastCaught("primary")
          /\ Logged("primary", "failure")[1].provider = primaryProvider.name
    /\ (WithFallback /\ pc = "done" /\ GaveUp("fallback"))
       => /\ result.kind = "threw"
          /\ OccursIn(LastCaught("fallback"), result.error)
          /\ Logged("fallback", "failure")[1].provider = fallbackProvider.name

\* A direct call used every attempt on retryable errors and threw the last
\* one, whose message does not name the provider.
C11_Witness ==
    /\ phase = "direct"
    /\ pc = "done"
    /\ retryConfig.maxRetries = 2
    /\ Len(Entries("direct", "caught")) = 3
    /\ IsRetryableError(LastCaught("direct"))
    /\ result.kind = "threw"
    /\ result.error = <<"HTTP ", "503", ": ", "Service Unavailable">>
    /\ ~OccursIn(<<provider.name>>, result.error)

\* C12: every payload sent to the fallback provider is the caller's request
\* with the model replaced by the fallback's model and max_tokens equal to
\* min(requested max_tokens, fallback.maxTokens), every other field unchanged.
C12_FallbackPayloadClamped ==
    \A i \in PositionsOfKind("fallback", "http") :
        trace[i].request =
            [origRequest EXCEPT
                !.model = fallbackProvider.model,
                !.max_tokens = Min(origRequest.max_tokens, fallbackProvider.maxTokens)]

\* The message holds one of the signals, in any letter case
ContainsAny(message, signals) == \E signal \in signals : Includes(message, signal)

\* The error caught at the i-th attempt of the invocation ended it: no attempt,
\* sleep or retry event came after it
NeverRetried(ph, i) ==
    /\ ~IsRetryableError(Entries(ph, "caught")[i].message)
    /\ Len(Entries(ph, "caught")) = i
    /\ Len(Entries(ph, "http")) = i
    /\ Len(Entries(ph, "sleep")) = i - 1
    /\ Len(Logged(ph, "retry")) = i - 1
    /\ Len(Logged(ph, "failure")) = 1

\* C13 as stated: every error whose text contains "401", "403",
\* "unauthorized", "400", "bad request", "404" or "not found" is classified
\* fatal and is never retried by makeRequest.
C13_FatalSignalNeverRetried ==
    \A ph \in Invocations :
        \A i \in 1..Len(Entries(ph, "caught")) :
            ContainsAny(Entries(ph, "caught")[i].message, FatalSignals)
            => NeverRetried(ph, i)

\* C13 amended: every error whose text contains one of the fatal signals and
\* none of the retryable signals is classified fatal and is never retried by
\* makeRequest.
C13_FatalSignalAloneNeverRetried ==
    \A ph \in Invocations :
        \A i \in 1..Len(Entries(ph, "caught")) :
            (/\ ContainsAny(Entries(ph, "caught")[i].message, FatalSignals)
             /\ ~ContainsAny(Entries(ph, "caught")[i].message, RetryableSignals))
            => NeverRetried(ph, i)

\* A client that may retry twice stopped a direct call at a first HTTP 401.
C13_Witness ==
    /\ phase = "direct"
    /\ pc = "done"
    /\ retryConfig.maxRetries = 2
    /\ Len(Entries("direct", "caught")) = 1
    /\ LastCaught("direct") = <<"HTTP ", "401", ": ", "Unauthorized">>
    /\ result.kind = "threw"

-----------------------------------------------------------------------------
(* Claims on isRetryableError alone *)

\* C14: every error whose text contains "429", "rate limit", "502", "503",
\* "504", "timeout", "network" or "connection", in any letter case, is
\* classified retryable, and every error whose text contains none of the
\* listed signals, retryable or fatal, is classified fatal.
C14_RetryableSignalsAndDefault ==
    classified # NoClassification
    => /\ ContainsAny(classified.message, RetryableSignals) => classified.retryable
       /\ ~ContainsAny(classified.message, RetryableSignals \cup FatalSignals)
             => ~classified.retryable

\* An error that holds a retryable signal in capitals next to a fatal signal
\* was classified retryable.
C14_Witness ==
    /\ classified.message = <<"401", "Connection">>
    /\ ContainsAny(classified.message, RetryableSignals)
    /\ classified.retryable

-----------------------------------------------------------------------------
(* Claims on the telemetry buffer *)

\* The last n elements of a sequence
LastN(seq, n) ==
    IF Len(seq) <= n THEN seq ELSE SubSeq(seq, Len(seq) - n + 1, Len(seq))

\* C6: the buffer never holds more than MAX_BUFFER_SIZE events, and it holds
\* the newest events logged since it was last cleared, in the order they were
\* logged: logging into a full buffer drops exactly the oldest event.
C6_BoundedFifo ==
    /\ Len(telemetryBuffer) <= MAX_BUFFER_SIZE
    /\ telemetryBuffer = LastN(inserted, MAX_BUFFER_SIZE)

\* One event more than the capacity has been logged: the first is gone.
C6_Witness ==
    /\ Len(inserted) = MAX_BUFFER_SIZE + 1
    /\ Len(telemetryBuffer) = MAX_BUFFER_SIZE
    /\ telemetryBuffer[1] = inserted[2]
    /\ telemetryBuffer[1] # inserted[1]
    /\ lastOp.op = "log"

\* C7: getTelemetryStats with a window of 0 returns empty stats.
C7_ZeroWindowEmpty ==
    (lastOp.op = "getTelemetryStats" /\ lastOp.timeWindow = WindowOf(0))
    => stats = <<>>

\* The buffer positions that hold events of a provider, and of a provider and status
EventsOf(name) ==
    { i \in 1..Len(telemetryBuffer) : telemetryBuffer[i].provider = name }

EventsOfStatus(name, status) ==
    { i \in EventsOf(name) : telemetryBuffer[i].status = status }

\* C8: getTelemetryStats with no window, or with an infinite window, computes
\* its stats over every event of the buffer.
C8_NoWindowCoversBuffer ==
    (lastOp.op = "getTelemetryStats"
        /\ lastOp.timeWindow \in {NoWindow, InfiniteWindow})
    => /\ \A i \in 1..Len(telemetryBuffer) :
             \E k \in 1..Len(stats) : stats[k].provider = telemetryBuffer[i].provider
       /\ \A k, l \in 1..Len(stats) :
             stats[k].provider = stats[l].provider => k = l
       /\ \A k \in 1..Len(stats) :
             /\ stats[k].totalRequests = Cardinality(EventsOf(stats[k].provider))
             /\ stats[k].successfulRequests
                   = Cardinality(EventsOfStatus(stats[k].provider, "success"))
             /\ stats[k].failedRequests
                   = Cardinality(EventsOfStatus(stats[k].provider, "failure"))
             /\ stats[k].fallbackRequests
                   = Cardinality(EventsOfStatus(stats[k].provider, "fallback"))
             /\ stats[k].retryRequests
                   = Cardinality(EventsOfStatus(stats[k].provider, "retry"))

\* Stats asked without a window over a full buffer of both providers whose
\* first event is older than the current time.
C8_Witness ==
    /\ lastOp.op = "getTelemetryStats"
    /\ lastOp.timeWindow = NoWindow
    /\ Len(telemetryBuffer) = MAX_BUFFER_SIZE
    /\ GetTime(telemetryBuffer[1].timestamp) < now
    /\ Len(stats) = 2
    /\ stats[1].totalRequests + stats[2].totalRequests = MAX_BUFFER_SIZE


-----------------------------------------------------------------------------
(* Claims on the provider registry *)

\* The environment variable that holds the credential of a known provider
CredentialOf(name) ==
    IF name = "OpenAI" THEN "OPENAI_API_KEY" ELSE "OVH_AI_ENDPOINTS_ACCESS_TOKEN"

KnownNames == { "OpenAI", "OVH", "OVH_SDXL" }

\* The provider's credential is set to a non-empty value without the
\* placeholder sentinel
HasCredential(name) ==
    /\ name \in KnownNames
    /\ env[CredentialOf(name)] \notin { <<>>, << <<>> >> }
    /\ \A i \in 1..Len(env[CredentialOf(name)][1]) :
          env[CredentialOf(name)][1][i] # "placeholder"

\* C15: getAvailableTextProvider returns the primary text provider whenever
\* the primary is available, the fallback text provider when the primary is
\* not available and the fallback is, and throws when neither is.
C15_TextProviderSelection ==
    lookup.op = "getAvailableTextProvider"
    => /\ HasCredential("OpenAI")
            => ~lookup.throws /\ lookup.provider = AI_CONFIG.text.primary
       /\ (~HasCredential("OpenAI") /\ HasCredential("OVH"))
            => ~lookup.throws /\ lookup.provider = AI_CONFIG.text.fallback
       /\ (~HasCredential("OpenAI") /\ ~HasCredential("OVH"))
            => /\ lookup.throws
               /\ lookup.provider = NoProvider
               /\ lookup.message = <<"No text providers available - check API keys">>

\* The primary's key is a placeholder, the fallback's token is real: the
\* fallback was returned.
C15_Witness ==
    /\ lookup.op = "getAvailableTextProvider"
    /\ env["OPENAI_API_KEY"] = << <<"placeholder">> >>
    /\ env["OVH_AI_ENDPOINTS_ACCESS_TOKEN"] = << <<"sk-", "live-key">> >>
    /\ lookup.provider = OVH

\* C16: getImageProvider returns the one configured image provider when it is
\* available and throws otherwise; it never returns a text provider.
C16_ImageProviderOnly ==
    lookup.op = "getImageProvider"
    => /\ HasCredential("OVH_SDXL")
            => ~lookup.throws /\ lookup.provider = AI_CONFIG.image.primary
       /\ ~HasCredential("OVH_SDXL")
            => /\ lookup.throws
               /\ lookup.provider = NoProvider
               /\ lookup.message = <<"Image provider ", "OVH_SDXL",
                                     " not available - check API keys">>
       /\ lookup.provider \notin { AI_CONFIG.text.primary, AI_CONFIG.text.fallback }

\* The image provider's token is not set while the primary text provider is
\* available: the call threw.
C16_Witness ==
    /\ lookup.op = "getImageProvider"
    /\ env["OVH_AI_ENDPOINTS_ACCESS_TOKEN"] = <<>>
    /\ HasCredential("OpenAI")
    /\ lookup.throws

\* C17: checkProviderAvailability returns true if and only if the provider's
\* name is known and its credential is set, not empty and without the
\* placeholder sentinel; it returns false for an absent credential, a
\* placeholder credential and an unknown provider name.
C17_AvailableIffCredential ==
    lookup.op = "checkProviderAvailability"
    => /\ lookup.available <=> HasCredential(lookup.arg)
       /\ lookup.arg \notin KnownNames => ~lookup.available
       /\ (lookup.arg \in KnownNames /\ env[CredentialOf(lookup.arg)] = <<>>)
            => ~lookup.available
       /\ (lookup.arg \in KnownNames
           /\ env[CredentialOf(lookup.arg)] = << <<"placeholder">> >>)
            => ~lookup.available

\* A key that holds the placeholder among other text made OpenAI unavailable.
C17_Witness ==
    /\ lookup.op = "checkProviderAvailability"
    /\ lookup.arg = "OpenAI"
    /\ env["OPENAI_API_KEY"] = << <<"your-", "placeholder", "-key">> >>
    /\ ~lookup.available

\* C18: getAuthHeader returns "Bearer " followed by the provider's own
\* credential for every known provider name, and throws for every other name.
C18_BearerOfOwnCredential ==
    lookup.op = "getAuthHeader"
    => IF lookup.arg \in KnownNames
       THEN /\ ~lookup.throws
            /\ lookup.header =
                  <<"Bearer ">> \o
                  (IF env[CredentialOf(lookup.arg)] = <<>>
                   THEN <<"undefined">>
                   ELSE env[CredentialOf(lookup.arg)][1])
       ELSE /\ lookup.throws
            /\ lookup.message = <<"Unknown provider: ", lookup.arg>>

\* The image provider got the header of the OVH token, which differs from the
\* OpenAI key.
C18_Witness ==
    /\ lookup.op = "getAuthHeader"
    /\ lookup.arg = "OVH_SDXL"
    /\ env["OPENAI_API_KEY"] = << <<"sk-", "live-key">> >>
    /\ env["OVH_AI_ENDPOINTS_ACCESS_TOKEN"] = << <<"your-", "placeholder", "-key">> >>
    /\ lookup.header = <<"Bearer ", "your-", "placeholder", "-key">>


-----------------------------------------------------------------------------
(* Claims on the health checker *)

\* The results performStartupHealthCheck returned, text providers first
AllResults == systemHealth.textProviders \o systemHealth.imageProviders

HealthyResults == { i \in 1..Len(AllResults) : AllResults[i].isHealthy }

\* C19: the overall status of performStartupHealthCheck is healthy iff every
\* probe result is healthy, unhealthy iff no probe result is healthy, and
\* degraded in every other case.
C19_OverallClassification ==
    healthPc = "done"
    => /\ AllResults =
             <<probeResult["OpenAI"], probeResult["OVH"], probeResult["OVH_SDXL"]>>
       /\ systemHealth.overall \in {"healthy", "degraded", "unhealthy"}
       /\ systemHealth.overall = "healthy" <=> HealthyResults = 1..Len(AllResults)
       /\ systemHealth.overall = "unhealthy" <=> HealthyResults = {}
       /\ systemHealth.overall = "degraded"
             <=> (HealthyResults # {} /\ HealthyResults # 1..Len(AllResults))

\* One probe timed out, one got 405 and one got 500: degraded.
C19_Witness ==
    /\ healthPc = "done"
    /\ probeResult["OpenAI"].error = <<"Health check timeout after ", "5000", "ms">>
    /\ probeStatus["OVH"] = 405
    /\ probeResult["OVH"].isHealthy
    /\ probeStatus["OVH_SDXL"] = 500
    /\ ~probeResult["OVH_SDXL"].isHealthy
    /\ systemHealth.overall = "degraded"

\* The fetches the health checker issued for one provider
FetchesFor(name) == SelectSeq(healthFetches, LAMBDA f : f.provider = name)

\* C20 as stated: a probe of a provider whose credential is absent issues no
\* network call and returns an unhealthy result whose error is
\* "credential not configured".
C20_AbsentCredentialNotConfigured ==
    \A name \in HealthNames :
        (probeState[name] = "done" /\ env[CredentialOf(name)] = <<>>)
        => /\ FetchesFor(name) = <<>>
           /\ ~probeResult[name].isHealthy
           /\ probeResult[name].error = <<"credential not configured">>

\* C20 amended: a probe of a provider whose credential is absent (or empty, or
\* a placeholder) issues no network call and returns an unhealthy result with
\* response time 0 whose error is "API key not configured or invalid".
C20_AbsentCredentialShortCircuits ==
    \A name \in HealthNames :
        (probeState[name] = "done" /\ ~HasCredential(name))
        => /\ FetchesFor(name) = <<>>
           /\ probeStatus[name] = 0
           /\ ~probeResult[name].isHealthy
           /\ probeResult[name].responseTimeMs = 0
           /\ probeResult[name].error = <<"API key not configured or invalid">>

\* The OVH token is not set and the OpenAI key is: the health check ended with one
\* fetch, to OpenAI, and OVH reported as not configured.
C20_Witness ==
    /\ healthPc = "done"
    /\ env["OVH_AI_ENDPOINTS_ACCESS_TOKEN"] = <<>>
    /\ HasCredential("OpenAI")
    /\ Len(healthFetches) = 1
    /\ healthFetches[1].provider = "OpenAI"
    /\ FetchesFor("OVH") = <<>>
    /\ probeResult["OVH"].error = <<"API key not configured or invalid">>

-----------------------------------------------------------------------------
(* C21 *)

\* The probe got an answer from its endpoint: a response or a transport error
Answered(name) ==
    /\ probeState[name] = "done"
    /\ \/ probeStatus[name] \in HealthStatuses
       \/ probeResult[name].error = <<"Connection", " refused">>

\* The probe ended as a timeout failure
TimedOut(name) ==
    /\ probeState[name] = "done"
    /\ ~probeResult[name].isHealthy
    /\ probeResult[name].error = <<"Health check timeout after ", "5000", "ms">>
    /\ probeResult[name].responseTimeMs >= HealthTimeoutMs

\* C21: every probe that was started eventually resolves, and a probe that
\* is still pending when its timeout has elapsed ends as an unhealthy result
\* with a timeout error unless its endpoint answers in that very instant
C21_ProbeEventuallyResolves ==
    \A name \in HealthNames :
        /\ (probeState[name] = "fetching") ~> (probeState[name] = "done")
        /\ TimerDue(name) ~> (Answered(name) \/ TimedOut(name))

\* a probe nobody answered has timed out, and the check went on to its result
C21_Witness ==
    /\ healthPc = "done"
    /\ TimedOut("OVH")
    /\ probeStatus["OVH"] \notin HealthStatuses
    /\ Answered("OpenAI")

-----------------------------------------------------------------------------
(* C22 *)

\* The lines logProviderHealth printed for a provider
HealthLogOf(name) == SelectSeq(healthLog, LAMBDA line : line.provider = name)

\* The events of the telemetry buffer under a provider's name
BufferedUnder(name) == SelectSeq(telemetryBuffer, LAMBDA event : event.provider = name)

-----------------------------------------------------------------------------
(* C23 *)

\* The results of a returned SystemHealth, each read against what happened
\* to its probe; withError says whether an unhealthy status carries an error
ResultsReflectProbes(withError) ==
    /\ systemHealth.overall \in {"healthy", "degraded", "unhealthy"}
    /\ Len(AllResults) = Cardinality(HealthNames)
    /\ { AllResults[i].provider : i \in 1..Len(AllResults) } = HealthNames
    /\ \A i \in 1..Len(AllResults) :
          LET r    == AllResults[i]
              name == r.provider
          IN  /\ FetchesFor(name) = <<>>
                    => /\ ~r.isHealthy
                       /\ r.error = <<"API key not configured or invalid">>
              /\ probeStatus[name] \in {401, 403, 500, 503}
                    => /\ ~r.isHealthy
                       /\ (r.error # Undefined) <=> withError
              /\ probeStatus[name] \in {200, 404, 405, 499}
                    => r.isHealthy /\ r.error = Undefined
              /\ (FetchesFor(name) # <<>> /\ probeStatus[name] \notin HealthStatuses)
                    => /\ ~r.isHealthy
                       /\ r.error \in { <<"Connection", " refused">>,
                                        <<"Health check timeout after ", "5000", "ms">> }

\* C23 as stated: every failed probe of the returned SystemHealth, a probe
\* answered with an HTTP error status included, carries its error
C23_EveryFailedProbeCarriesError ==
    healthPc = "done" => ResultsReflectProbes(TRUE)

\* C23: a started performStartupHealthCheck always returns, and its
\* SystemHealth holds every failed probe as an unhealthy result: with the
\* error message for a missing credential, a transport error and a timeout,
\* without error for an HTTP status 401, 403 or 500
C23_AlwaysReturnsSystemHealth ==
    /\ [](healthPc = "done" => ResultsReflectProbes(FALSE))
    /\ (healthPc \in {"text", "image"}) ~> (healthPc = "done")

\* no probe is healthy, each for another reason, the image probe after a
\* transport error, and the check has returned
C23_Witness ==
    /\ healthPc = "done"
    /\ systemHealth.overall = "unhealthy"
    /\ TimedOut("OpenAI")
    /\ probeStatus["OVH"] = 500
    /\ probeResult["OVH"].error = Undefined
    /\ probeResult["OVH_SDXL"].error = <<"Connection", " refused">>

-----------------------------------------------------------------------------
(* C24 *)

\* C24: a call of getTelemetryStats leaves the telemetry buffer (contents,
\* order, length) and the clock as they were, and a call that follows a call
\* with the same window, nothing else in between, returns the same stats
C24_StatsSideEffectFree ==
    [][lastOp'.op = "getTelemetryStats"
          => /\ telemetryBuffer' = telemetryBuffer
             /\ Len(telemetryBuffer') = Len(telemetryBuffer)
             /\ now' = now
             /\ (lastOp = lastOp') => (stats' = stats)]_vars

\* stats over a window that excludes an older event of the full buffer: the
\* buffer still holds every event
C24_Witness ==
    /\ lastOp.op = "getTelemetryStats"
    /\ lastOp.timeWindow = WindowOf(1)
    /\ Len(telemetryBuffer) = MAX_BUFFER_SIZE
    /\ telemetryBuffer = LastN(inserted, MAX_BUFFER_SIZE)
    /\ GetTime(telemetryBuffer[1].timestamp) < now
    /\ GetTime(telemetryBuffer[MAX_BUFFER_SIZE].timestamp) = now
    /\ Len(stats) = 1
    /\ stats[1].totalRequests < MAX_BUFFER_SIZE

-----------------------------------------------------------------------------
(* C25 *)

\* C25: clearTelemetryBuffer leaves the buffer empty whatever it held: its
\* size is 0 and the stats of every window are empty; the first event logged
\* after it is alone in the buffer, and the buffer holds at any time the newest
\* events logged since the clear, MAX_BUFFER_SIZE at most
C25_ClearEmptiesBuffer ==
    /\ [](lastOp.op = "clearTelemetryBuffer"
            => /\ telemetryBuffer = <<>>
               /\ GetTelemetryBufferSize(telemetryBuffer) = 0
               /\ \A timeWindow \in TimeWindows :
                     GetTelemetryStats(telemetryBuffer, timeWindow, now) = <<>>)
    /\ [][(lastOp.op = "clearTelemetryBuffer" /\ lastOp'.op = "log")
            => /\ GetTelemetryBufferSize(telemetryBuffer') = 1
               /\ telemetryBuffer' = inserted']_vars
    /\ [](/\ GetTelemetryBufferSize(telemetryBuffer) <= MAX_BUFFER_SIZE
          /\ telemetryBuffer = LastN(inserted, MAX_BUFFER_SIZE))

\* a full buffer has been cleared
C25_Witness ==
    /\ lastOp.op = "clearTelemetryBuffer"
    /\ lastOp.size = MAX_BUFFER_SIZE
    /\ telemetryBuffer = <<>>

-----------------------------------------------------------------------------
(* C26 *)

\* C26: whatever the order in which the callbacks of two concurrent requests,
\* of the health probes and of clearTelemetryBuffer run, the buffer holds
\* the events logged since the last clear, each once and in the order of
\* their log calls, less the oldest ones beyond MAX_BUFFER_SIZE
C26_ConcurrentAppendsSerialized ==
    /\ Len(telemetryBuffer) <= MAX_BUFFER_SIZE
    /\ telemetryBuffer = LastN(inserted, MAX_BUFFER_SIZE)
    /\ \A i, j \in 1..Len(inserted) : inserted[i] = inserted[j] => i = j
    /\ \A i, j \in 1..Len(telemetryBuffer) :
          telemetryBuffer[i] = telemetryBuffer[j] => i = j

\* both requests and the health check are over; the events of the two
\* requests alternate in the full buffer and the oldest were shifted out
C26_Witness ==
    /\ \A t \in ConcurrentRequests : tasks[t].pc = "done"
    /\ healthPc = "done"
    /\ Len(inserted) > MAX_BUFFER_SIZE
    /\ Len(telemetryBuffer) = MAX_BUFFER_SIZE
    /\ \A i \in 1..(Len(telemetryBuffer) - 1) :
          telemetryBuffer[i].provider # telemetryBuffer[i + 1].provider
    /\ \A i \in 1..Len(telemetryBuffer) :
          telemetryBuffer[i].timestamp = telemetryBuffer[1].timestamp

-----------------------------------------------------------------------------
(* C27 *)

\* The invocation has made its first step
Began(ph) == PositionsOf(ph) # {}

\* The invocation has returned or thrown
Ended(ph) == Began(ph) /\ (pc = "done" \/ phase # ph)

\* The provider an invocation was called with
ProviderOf(ph) ==
    CASE ph = "primary" -> primaryProvider.name
      [] ph = "fallback" -> fallbackProvider.name
      [] OTHER -> provider.name

\* The positions of the events of some statuses an invocation handed to log
LogPositions(ph, statuses) ==
    { i \in PositionsOfKind(ph, "log") : trace[i].status \in statuses }

\* C27: a makeRequest invocation that has returned or thrown has logged
\* exactly one success or failure event, an invocation still running none;
\* the event is logged under the invocation's provider, it is a success
\* exactly when the invocation returned, and every retry event of the
\* invocation, as everything else it did, precedes it
C27_ExactlyOneTerminalEvent ==
    \A ph \in Invocations :
        LET terminal == LogPositions(ph, {"success", "failure"})
        IN  /\ Cardinality(terminal) = IF Ended(ph) THEN 1 ELSE 0
            /\ Len(Logged(ph, "success")) + Len(Logged(ph, "failure"))
                  = Cardinality(terminal)
            /\ LogPositions(ph, {"fallback"}) = {}
            /\ \A i \in PositionsOfKind(ph, "log") :
                  trace[i].provider = ProviderOf(ph)
            /\ \A i \in terminal :
                  /\ \A k \in PositionsOf(ph) : k <= i
                  /\ \A k \in LogPositions(ph, {"retry"}) : k < i
            /\ (Ended(ph) /\ ph = "direct")
                  => (result.kind = "returned" <=> Len(Logged(ph, "success")) = 1)

\* the primary threw after a retry and the fallback returned after a retry
C27_Witness ==
    /\ WithFallback
    /\ pc = "done"
    /\ Ended("primary")
    /\ Ended("fallback")
    /\ Len(Logged("primary", "retry")) > 0
    /\ Len(Logged("primary", "failure")) = 1
    /\ Len(Logged("fallback", "retry")) > 0
    /\ Len(Logged("fallback", "success")) = 1
    /\ result.kind = "returned"

-----------------------------------------------------------------------------
(* C28 *)

\* An attempt of the invocation succeeded after earlier attempts had failed:
\* the invocation is over and its last fetch was not followed by a catch
SucceededAfterFailures(ph) ==
    /\ Ended(ph)
    /\ Len(Entries(ph, "caught")) > 0
    /\ Len(Entries(ph, "http")) = Len(Entries(ph, "caught")) + 1

\* C28: when an attempt of makeRequest succeeds after earlier attempts failed,
\* every earlier error was retryable, the call returns the response (with its
\* token usage, reported or not), the invocation has logged one success event
\* carrying that token usage and no failure event, and the caller gets no error
C28_SuccessAfterRetries ==
    \A ph \in Invocations :
        SucceededAfterFailures(ph)
        => /\ \A i \in 1..Len(Entries(ph, "caught")) :
                 IsRetryableError(Entries(ph, "caught")[i].message)
           /\ pc = "done"
           /\ result.kind = "returned"
           /\ result.error = <<>>
           /\ result.usedProvider = IF ph = "direct" THEN "" ELSE ProviderOf(ph)
           /\ Len(Logged(ph, "success")) = 1
           /\ Logged(ph, "success")[1].usage = result.usage
           /\ Logged(ph, "success")[1].message = Undefined
           /\ telemetryBuffer[Len(telemetryBuffer)].status = "success"
           /\ telemetryBuffer[Len(telemetryBuffer)].tokenUsage = result.usage
           /\ Len(Logged(ph, "failure")) = 0
           /\ Len(Logged(ph, "retry")) = Len(Entries(ph, "caught"))

\* the third attempt of a direct call succeeded and the provider reported
\* its token usage
C28_Witness ==
    /\ SucceededAfterFailures("direct")
    /\ Len(Entries("direct", "caught")) = 2
    /\ Entries("direct", "caught")[1].message # Entries("direct", "caught")[2].message
    /\ result.kind = "returned"
    /\ result.usage = <<42>>
    /\ telemetryBuffer[Len(telemetryBuffer)].tokenUsage = <<42>>

-----------------------------------------------------------------------------
(* C29 *)

\* The k-th of a set of trace positions
NthPosition(positions, k) ==
    CHOOSE i \in positions : Cardinality({ j \in positions : j <= i }) = k

\* The caught errors of an invocation that the loop answers with a retry:
\* retryable, at an attempt index (from 0) below maxRetries
RetriedFailures(ph) ==
    { k \in 1..Len(Entries(ph, "caught")) :
        /\ IsRetryableError(Entries(ph, "caught")[k].message)
        /\ k - 1 < retryConfig.maxRetries }

\* One retry event per retried failure, logged after the failure, before the
\* sleep and before the next fetch; as many retry events as attempts but
\* the first. The number a retry event carries is the attempt index (from 0)
\* of the failure it follows plus ahead
RetryEventsInOrder(ahead) ==
    \A ph \in Invocations :
        LET retries == LogPositions(ph, {"retry"})
            caught  == PositionsOfKind(ph, "caught")
            sleeps  == PositionsOfKind(ph, "sleep")
            https   == PositionsOfKind(ph, "http")
        IN  /\ Cardinality(retries) = Cardinality(RetriedFailures(ph))
            /\ Cardinality(sleeps) = Cardinality(retries)
            /\ Cardinality(https) \in { Cardinality(retries), Cardinality(retries) + 1 }
            /\ Ended(ph) => Cardinality(retries) = Cardinality(https) - 1
            /\ \A k \in 1..Cardinality(retries) :
                  LET r == NthPosition(retries, k)
                  IN  /\ k \in RetriedFailures(ph)
                      /\ trace[r].message[Len(trace[r].message)]
                            = ToString(k - 1 + ahead)
                      /\ NthPosition(caught, k) < r
                      /\ r < NthPosition(sleeps, k)
                      /\ \A h \in https :
                            Cardinality({ j \in https : j <= h }) = k + 1
                            => NthPosition(sleeps, k) < h

\* C29 as stated: the retry event logged for the failure at attempt index n
\* carries n
C29_RetryCarriesFailedAttemptIndex == RetryEventsInOrder(0)

\* C29: for each retryable failure at attempt index n < maxRetries one retry
\* event is logged, before the backoff sleep and the next fetch, with the
\* message "Retry attempt n+1", the index of the attempt that follows; an
\* invocation that is over has logged one retry event less than it made attempts
C29_RetryCarriesFollowingAttemptIndex ==
    /\ RetryEventsInOrder(1)
    /\ \A ph \in Invocations :
          \A r \in LogPositions(ph, {"retry"}) :
             /\ Len(trace[r].message) = 2
             /\ trace[r].message[1] = "Retry attempt "

\* a direct call failed twice with retryable errors and succeeded at index 2
C29_Witness ==
    /\ pc = "done"
    /\ phase = "direct"
    /\ result.kind = "returned"
    /\ Len(Entries("direct", "http")) = 3
    /\ Len(Logged("direct", "retry")) = 2
    /\ Logged("direct", "retry")[1].message = <<"Retry attempt ", "1">>
    /\ Logged("direct", "retry")[2].message = <<"Retry attempt ", "2">>

-----------------------------------------------------------------------------
(* C30 *)

\* The positions of the fallback events of the whole call
FallbackEvents ==
    { i \in 1..Len(trace) : trace[i].kind = "log" /\ trace[i].status = "fallback" }

\* The primary failed: its makeRequest threw, or its auth header could not
\* be computed
PrimaryFailed == PrimaryFatal \/ getPrimaryAuthHeader.throws

\* C30: a makeRequestWithFallback call logs one fallback event when the
\* primary has failed, however often the primary retried, and none before
\* or when the primary succeeds; the event is logged by the call itself
\* after everything the primary did and before anything the fallback does,
\* under the primary's name with the primary's final error message, and no
\* fallback event is logged under the fallback provider's name
C30_OneFallbackEventUnderPrimary ==
    WithFallback =>
        /\ Cardinality(FallbackEvents) = IF PrimaryFailed THEN 1 ELSE 0
        /\ Len(Logged("primary", "success")) > 0 => FallbackEvents = {}
        /\ \A i \in FallbackEvents :
              /\ trace[i].phase = "outer"
              /\ trace[i].provider = primaryProvider.name
              /\ trace[i].message = PrimaryFinalError
              /\ trace[i].message # <<>>
              /\ \A k \in PositionsOf("primary") : k < i
              /\ \A k \in PositionsOf("fallback") : i < k
        /\ Len(LoggedUnder(primaryProvider.name, "fallback"))
              = Cardinality(FallbackEvents)
        /\ Len(LoggedUnder(fallbackProvider.name, "fallback")) = 0

\* the primary failed after two retries, the fallback after one: one
\* fallback event
C30_Witness ==
    /\ WithFallback
    /\ pc = "done"
    /\ Len(Logged("primary", "retry")) = 2
    /\ Len(Logged("primary", "failure")) = 1
    /\ Len(Logged("fallback", "retry")) = 1
    /\ Len(Logged("fallback", "failure")) = 1
    /\ Cardinality(FallbackEvents) = 1
    /\ Len(LoggedUnder(primaryProvider.name, "fallback")) = 1

-----------------------------------------------------------------------------
(* C31 *)

\* C31: once performStartupHealthCheck runs, the probe of every configured
\* provider has been started, and all were started at the same time: no
\* probe waits for another probe to finish
C31_ProbesStartTogether ==
    healthPc # "idle"
    => \A name \in HealthNames :
          /\ probeState[name] # "notStarted"
          /\ probeStart[name] = probeStart["OpenAI"]

-----------------------------------------------------------------------------
(* C32 *)

\* C32: performStartupHealthCheck has produced its SystemHealth only when
\* every probe has its result, none is still pending or not started, and
\* the SystemHealth holds one HealthCheckResult per configured provider:
\* the result that provider's probe returned
C32_AggregateAfterEveryProbe ==
    /\ (systemHealth.overall # "none") <=> (healthPc = "done")
    /\ healthPc = "done"
       => /\ \A name \in HealthNames : probeState[name] = "done"
          /\ Len(systemHealth.textProviders) = 2
          /\ Len(systemHealth.imageProviders) = 1
          /\ \A name \in HealthNames :
                /\ Cardinality({ i \in 1..Len(AllResults) :
                                    AllResults[i].provider = name }) = 1
                /\ \E i \in 1..Len(AllResults) : AllResults[i] = probeResult[name]
    /\ (\E name \in HealthNames : probeState[name] # "done")
       => systemHealth.textProviders = <<>> /\ systemHealth.imageProviders = <<>>

\* the image probe was the last to resolve, by its timeout, after a text
\* probe had timed out too
C32_Witness ==
    /\ healthPc = "done"
    /\ TimedOut("OVH_SDXL")
    /\ TimedOut("OpenAI")
    /\ probeStatus["OVH"] = 405
    /\ Len(AllResults) = 3
    /\ AllResults[3] = probeResult["OVH_SDXL"]

-----------------------------------------------------------------------------
(* C33 *)

\* C33: a probe whose request was answered with an HTTP status is healthy
\* exactly when the status is below 500 and neither 401 nor 403: 404 and 405
\* are healthy, 500 and 503 are not
C33_HealthyIffStatusTolerated ==
    \A name \in HealthNames :
        (probeState[name] = "done" /\ probeStatus[name] \in HealthStatuses)
        => /\ probeResult[name].isHealthy
                <=> (probeStatus[name] < 500 /\ probeStatus[name] \notin {401, 403})
           /\ probeStatus[name] \in {404, 405} => probeResult[name].isHealthy
           /\ probeStatus[name] >= 500 => ~probeResult[name].isHealthy
           /\ \E i \in 1..Len(healthLog) :
                 /\ healthLog[i].provider = name
                 /\ healthLog[i].isHealthy = probeResult[name].isHealthy

\* the three probes were answered with 404, 403 and 503
C33_Witness ==
    /\ healthPc = "done"
    /\ probeStatus["OpenAI"] = 404
    /\ probeResult["OpenAI"].isHealthy
    /\ probeStatus["OVH"] = 403
    /\ ~probeResult["OVH"].isHealthy
    /\ probeStatus["OVH_SDXL"] = 503
    /\ ~probeResult["OVH_SDXL"].isHealthy
    /\ systemHealth.overall = "degraded"

-----------------------------------------------------------------------------
(* C34 *)

\* The positions of the HTTP attempts of the whole call
HttpAttempts == { i \in 1..Len(trace) : trace[i].kind = "http" }

\* The call is over, and it made at most 2 * (maxRetries + 1) HTTP attempts,
\* each to the given primary or the given fallback, none to the primary
\* once the fallback had been requested
EndedWithinBounds ==
    /\ pc = "done"
    /\ result.kind \in {"returned", "threw"}
    /\ Cardinality(HttpAttempts) <= 2 * (retryConfig.maxRetries + 1)
    /\ \A i \in HttpAttempts :
          /\ trace[i].provider \in {primaryProvider.name, fallbackProvider.name}
          /\ trace[i].phase \in {"primary", "fallback"}
          /\ trace[i].provider = ProviderOf(trace[i].phase)
    /\ \A i, k \in HttpAttempts :
          (trace[i].phase = "fallback" /\ i < k) => trace[k].phase = "fallback"

\* C34: a makeRequestWithFallback call always comes to its end, by a return
\* or an error, having made at most 2 * (maxRetries + 1) HTTP attempts, each
\* to the given primary or the given fallback, and none to the primary once
\* the fallback had been requested
C34_FallbackCallTerminates ==
    (WithFallback /\ pc # "done") ~> (WithFallback /\ EndedWithinBounds)

\* both providers used every attempt and the call ended with an error
C34_Witness ==
    /\ WithFallback
    /\ pc = "done"
    /\ result.kind = "threw"
    /\ retryConfig.maxRetries = MaxRetriesBound
    /\ Cardinality(HttpAttempts) = 2 * (retryConfig.maxRetries + 1)

-----------------------------------------------------------------------------
(* C35 *)

\* C35: while a request is in its backoff sleep, every other request can
\* start, have its fetch answered and end its own sleep, the health check
\* can start and every pending probe can be answered; a step of another
\* request or of a probe leaves the sleeping request asleep, which only its
\* own timer ends
C35_SleepSuspendsOnlyItsCall ==
    /\ [](\A t \in ConcurrentRequests :
            tasks[t].pc = "sleeping"
            => /\ \A u \in ConcurrentRequests \ {t} :
                     /\ tasks[u].pc = "idle" => ENABLED StartRequest(u)
                     /\ tasks[u].pc = "fetching" => ENABLED RequestFetchSucceeds(u)
                     /\ tasks[u].pc = "sleeping" => ENABLED RequestSleepResolves(u)
               /\ healthPc = "idle" => ENABLED CallPerformStartupHealthCheck
               /\ \A name \in HealthNames :
                     probeState[name] = "fetching"
                     => ENABLED HealthFetchResolves(name, 200)
               /\ ENABLED RequestSleepResolves(t))
    /\ [][\A t \in ConcurrentRequests :
            (tasks[t].pc = "sleeping" /\ tasks'[t] # tasks[t])
            => /\ tasks'[t] = [tasks[t] EXCEPT !.pc = "fetching"]
               /\ \A u \in ConcurrentRequests \ {t} : tasks'[u] = tasks[u]
               /\ UNCHANGED <<telemetryBuffer, healthVars>>]_vars

\* a request is still in its first backoff sleep; after it fell asleep the
\* other request retried and came to its end, and the health check was run
C35_Witness ==
    /\ tasks["OpenAI"].pc = "sleeping"
    /\ tasks["OpenAI"].attempt = 1
    /\ tasks["OVH"].pc = "done"
    /\ healthPc = "done"
    /\ Len(inserted) = 3
    /\ inserted[1].provider = "OpenAI"
    /\ inserted[1].status = "retry"
    /\ inserted[2].provider = "OVH"
    /\ inserted[2].status = "retry"
    /\ inserted[3].provider = "OVH"

-----------------------------------------------------------------------------
(* C36 *)

\* The buffer positions whose event passes the filter of the last call
InWindow ==
    { i \in 1..Len(telemetryBuffer) :
        AfterCutoff(telemetryBuffer[i], CutoffTime(lastOp.timeWindow, now)) }

\* C36: whatever log and clear calls of other callers come before and after
\* it, the stats a getTelemetryStats call returns are those of the one buffer
\* the call found, which is the buffer as it is when the call returns: the
\* providers listed are those of the events that pass the filter, each with
\* the count of its events there, split by status without rest
C36_StatsFromOneSnapshot ==
    lastOp.op = "getTelemetryStats"
    => /\ lastOp.size = Len(telemetryBuffer)
       /\ telemetryBuffer = LastN(inserted, MAX_BUFFER_SIZE)
       /\ { stats[k].provider : k \in 1..Len(stats) }
             = { telemetryBuffer[i].provider : i \in InWindow }
       /\ \A k \in 1..Len(stats) :
             /\ stats[k].totalRequests
                   = Cardinality({ i \in InWindow :
                                     telemetryBuffer[i].provider = stats[k].provider })
             /\ stats[k].totalRequests
                   = stats[k].successfulRequests + stats[k].failedRequests
                     + stats[k].fallbackRequests + stats[k].retryRequests

\* stats were taken between a clear and later appends of two providers, the
\* buffer full again
C36_Witness ==
    /\ lastOp.op = "getTelemetryStats"
    /\ lastOp.timeWindow = InfiniteWindow
    /\ Len(inserted) = MAX_BUFFER_SIZE + 1
    /\ Len(telemetryBuffer) = MAX_BUFFER_SIZE
    /\ Len(stats) = 2
    /\ stats[1].totalRequests + stats[2].totalRequests = MAX_BUFFER_SIZE
    /\ now = MaxTime

-----------------------------------------------------------------------------
(* C37 *)

\* The buffer positions of the events younger than a window of w milliseconds
YoungerThan(w) ==
    { i \in 1..Len(telemetryBuffer) :
        GetTime(telemetryBuffer[i].timestamp) > now - w }

\* The events of a provider and a status among some buffer positions
CountAmong(positions, name, status) ==
    Cardinality({ i \in positions : /\ telemetryBuffer[i].provider = name
                                     /\ telemetryBuffer[i].status = status })

\* C37: getTelemetryStats with a positive window w returns one ProviderStats
\* for each provider with a buffered event of timestamp > now - w and for no
\* other; its four status counts are the counts of that provider's events
\* of timestamp > now - w, and totalRequests is their sum; an event at or
\* before now - w is counted nowhere
C37_PositiveWindowStats ==
    (/\ lastOp.op = "getTelemetryStats"
     /\ lastOp.timeWindow.kind = "number"
     /\ lastOp.timeWindow.value > 0)
    => LET inWindow == YoungerThan(lastOp.timeWindow.value)
       IN  /\ \A k, l \in 1..Len(stats) :
                 stats[k].provider = stats[l].provider => k = l
           /\ { stats[k].provider : k \in 1..Len(stats) }
                 = { telemetryBuffer[i].provider : i \in inWindow }
           /\ \A k \in 1..Len(stats) :
                 LET name == stats[k].provider
                 IN  /\ stats[k].successfulRequests = CountAmong(inWindow, name, "success")
                     /\ stats[k].failedRequests = CountAmong(inWindow, name, "failure")
                     /\ stats[k].fallbackRequests = CountAmong(inWindow, name, "fallback")
                     /\ stats[k].retryRequests = CountAmong(inWindow, name, "retry")
                     /\ stats[k].totalRequests
                           = stats[k].successfulRequests + stats[k].failedRequests
                             + stats[k].fallbackRequests + stats[k].retryRequests
                     /\ stats[k].totalRequests
                           = Cardinality({ i \in inWindow :
                                             telemetryBuffer[i].provider = name })
                     /\ stats[k].totalRequests > 0

\* the only event of one provider lies exactly at the cutoff, two events of
\* another provider after it: stats of the second provider alone
C37_Witness ==
    /\ lastOp.op = "getTelemetryStats"
    /\ lastOp.timeWindow = WindowOf(1)
    /\ Len(telemetryBuffer) = 3
    /\ telemetryBuffer[1].provider = "OpenAI"
    /\ GetTime(telemetryBuffer[1].timestamp) = now - 1
    /\ telemetryBuffer[2].provider = "OVH"
    /\ telemetryBuffer[3].provider = "OVH"
    /\ GetTime(telemetryBuffer[2].timestamp) = now
    /\ Len(stats) = 1
    /\ stats[1].provider = "OVH"
    /\ stats[1].totalRequests = 2

-----------------------------------------------------------------------------
(* C38 *)

\* A step in which the pending probe of a provider ends with the timeout
AbortedInStep(name) ==
    /\ probeState[name] = "fetching"
    /\ probeState'[name] = "done"
    /\ probeResult'[name].error
          = <<"Health check timeout after ", "5000", "ms">>

\* C38: the timeout of one probe aborts the request of that probe only: in
\* the step that ends a probe with the timeout, every other pending probe
\* stays pending with its own start time and without a result, and the
\* health check goes on to its join; no step makes the health check fail
C38_AbortReachesOnlyItsProbe ==
    [][ /\ healthPc' # "failed"
        /\ \A name \in HealthNames :
              AbortedInStep(name)
              => /\ \A other \in HealthNames \ {name} :
                       probeState[other] = "fetching"
                       => /\ probeState'[other] = "fetching"
                          /\ probeStart'[other] = probeStart[other]
                          /\ probeResult'[other] = probeResult[other]
                 /\ healthPc' \in {"text", "image", "done"} ]_vars

\* one text probe timed out, the other was answered afterwards by its
\* endpoint, and the system health was produced
C38_Witness ==
    /\ healthPc = "done"
    /\ TimedOut("OpenAI")
    /\ Answered("OVH")
    /\ probeResult["OVH"].isHealthy
    /\ systemHealth.overall = "degraded"

-----------------------------------------------------------------------------
(* C39 *)

\* The primary's makeRequest has thrown: it sent a request, is over and
\* logged no success
PrimaryThrew ==
    /\ WithFallback
    /\ Len(Entries("primary", "http")) > 0
    /\ Ended("primary")
    /\ Len(Logged("primary", "success")) = 0

\* The positions of all events the call handed to log
EventPositions == { i \in 1..Len(trace) : trace[i].kind = "log" }

\* C39: in a makeRequestWithFallback call whose primary makeRequest has
\* thrown, the logged events are, in this order: the primary's retry events,
\* one failure event of the primary, one fallback event under the primary's
\* name, and then the events of the fallback provider; there is no other
\* event
C39_FallbackCallEventOrder ==
    PrimaryThrew =>
        LET retries  == LogPositions("primary", {"retry"})
            failures == LogPositions("primary", {"failure"})
            later    == PositionsOfKind("fallback", "log")
        IN  /\ Cardinality(failures) = 1
            /\ Cardinality(FallbackEvents) = 1
            /\ EventPositions = retries \cup failures \cup FallbackEvents \cup later
            /\ \A r \in retries, f \in failures : r < f
            /\ \A f \in failures, b \in FallbackEvents : f < b
            /\ \A b \in FallbackEvents, k \in later : b < k
            /\ \A i \in retries \cup failures \cup FallbackEvents :
                  trace[i].provider = primaryProvider.name
            /\ \A k \in later :
                  /\ trace[k].provider = fallbackProvider.name
                  /\ trace[k].status \in {"retry", "success", "failure"}
            /\ \A f \in failures, b \in FallbackEvents :
                  trace[f].message = trace[b].message

\* retry, failure and fallback event of the primary, then a retry and the
\* success of the fallback provider
C39_Witness ==
    /\ PrimaryThrew
    /\ pc = "done"
    /\ \E r, f, b, k, m \in EventPositions :
          /\ r < f /\ f < b /\ b < k /\ k < m
          /\ trace[r].status = "retry" /\ trace[r].phase = "primary"
          /\ trace[f].status = "failure"
          /\ trace[b].status = "fallback"
          /\ trace[k].status = "retry" /\ trace[k].phase = "fallback"
          /\ trace[m].status = "success"

-----------------------------------------------------------------------------
(* C40 *)

\* Computing the primary's auth header threw inside makeRequestWithFallback
PrimaryAuthThrew == WithFallback /\ getPrimaryAuthHeader.throws

\* What the call does for the primary when its auth header cannot be
\* computed: no request, no event of its makeRequest, one fallback event
\* under its name with the error of the callback
OnlyFallbackEventForPrimary ==
    /\ PositionsOf("primary") = {}
    /\ \A i \in 1..Len(trace) :
          trace[i].kind = "http" => trace[i].provider # primaryProvider.name
    /\ \A status \in {"success", "failure", "retry"} :
          Len(LoggedUnder(primaryProvider.name, status)) = 0
    /\ Len(LoggedUnder(primaryProvider.name, "fallback")) = 1
    /\ \A i \in FallbackEvents :
          /\ trace[i].provider = primaryProvider.name
          /\ trace[i].message = getPrimaryAuthHeader.message
          /\ \A k \in PositionsOf("fallback") : i < k

\* C40 as stated: when computing the primary's auth header throws, the
\* primary gets no HTTP attempt and no success, failure or retry event, a
\* fallback event is logged under the primary's name, and a request goes to
\* the fallback provider
C40_PrimaryAuthThrowsFallbackRequested ==
    PrimaryAuthThrew => (OnlyFallbackEventForPrimary /\ FallbackRequested)

\* C40 amended: when computing the primary's auth header throws, the
\* primary gets no HTTP attempt and no success, failure or retry event and a
\* fallback event is logged under the primary's name; a request goes to the
\* fallback provider if its own auth header can be computed, and otherwise
\* the call throws the both-failed error without any HTTP attempt
C40_PrimaryAuthThrowsFallbackTried ==
    PrimaryAuthThrew =>
        /\ OnlyFallbackEventForPrimary
        /\ FallbackRequested <=> ~getFallbackAuthHeader.throws
        /\ getFallbackAuthHeader.throws
              => /\ pc = "done"
                 /\ result.kind = "threw"
                 /\ result.error
                       = BothFailedMessage(primaryProvider,
                                           getPrimaryAuthHeader.message,
                                           fallbackProvider,
                                           getFallbackAuthHeader.message)
                 /\ \A i \in 1..Len(trace) : trace[i].kind # "http"
                 /\ Len(trace) = 1

\* the primary's auth header could not be computed and the fallback
\* provider answered the request
C40_Witness ==
    /\ PrimaryAuthThrew
    /\ ~getFallbackAuthHeader.throws
    /\ pc = "done"
    /\ result.kind = "returned"
    /\ result.usedProvider = fallbackProvider.name
    /\ fallbackProvider = Unlisted
    /\ Len(Entries("primary", "http")) = 0
    /\ Len(Entries("fallback", "http")) > 0
    /\ Cardinality(FallbackEvents) = 1

=============================================================================
